---- MODULE Spec2Model ----
(***************************************************************************)
(* Model of the note-commitment hashing pipeline of cazt                   *)
(* (src/cli/utils/note.ts, NoteUtils.computeNoteHash) together with the    *)
(* field codec it parses its inputs with (src/cli/utils/helpers.ts).       *)
(*                                                                         *)
(* Texts are sequences of one-character strings.  A field element (Fr) is  *)
(* the tuple <<"fr", n>> for a value held as a number, or the term         *)
(* <<"poseidon2", inputs>> for the output of the SDK's Poseidon2 hash,     *)
(* which is an opaque collision-free primitive here.  The field is scaled  *)
(* from 32 bytes to SIZE_IN_BYTES bytes, the modulus keeping the top byte  *)
(* 0x30 of the BN254 scalar field.                                         *)
(*                                                                         *)
(* An optional JavaScript value is <<>> (undefined) or <<v>>.              *)
(***************************************************************************)
EXTENDS Integers, Sequences, FiniteSets, TLC

VARIABLES call, codec, log, prev, tasks, cli

vars == <<call, codec, log, prev, tasks, cli>>

\* What an action of computeNoteHash, of a utility, of decryptRawPrivateLog,
\* of a caller's concurrent invocations and of the CLI leaves alone.
otherThanCall == <<codec, log, prev, tasks, cli>>

otherThanCodec == <<call, log, prev, tasks, cli>>

otherThanLog == <<call, codec, prev, tasks, cli>>

otherThanTasks == <<call, codec, log, prev, cli>>

otherThanCli == <<call, codec, log, prev, tasks>>

----------------------------------------------------------------------------
(* Bounds of the model *)

\* Width of a field element in bytes (32 in the SDK).
SIZE_IN_BYTES == 2

\* Longest noteItems array drawn as an input.
MaxItems == 3

----------------------------------------------------------------------------
(* Constants of the SDK used by the code *)

\* Field modulus: top byte 0x30, as for the BN254 scalar field.
RECURSIVE Pow256(_)
Pow256(k) == IF k = 0 THEN 1 ELSE 256 * Pow256(k - 1)

MODULUS == 48 * Pow256(SIZE_IN_BYTES - 1) + 1

\* GeneratorIndex of @aztec/constants: NOTE_HASH = 1, UNIQUE_NOTE_HASH = 3,
\* SILOED_NOTE_HASH = 4.
NOTE_HASH == 1

UNIQUE_NOTE_HASH == 3

\* Mutant: the siloed stage reuses the separator of the raw stage.
SILOED_NOTE_HASH_Reused == NOTE_HASH

SILOED_NOTE_HASH == 4

----------------------------------------------------------------------------
(* Optional values and texts *)

None == <<>>

Some(v) == <<v>>

Opt(S) == {None} \cup {Some(v) : v \in S}

\* JavaScript truthiness of an optional string: undefined and "" are falsy.
Truthy(o) == o # None /\ o[1] # <<>>

\* `x === undefined || x === null`
IsNullish(o) == o = None

HexDigits == <<"0", "1", "2", "3", "4", "5", "6", "7", "8", "9", "a", "b", "c", "d", "e", "f">>

IsHexDigit(c) == \E i \in 1..16 : HexDigits[i] = c

HexVal(c) == (CHOOSE i \in 1..16 : HexDigits[i] = c) - 1

\* UTF-8 code of the ASCII characters of the model's alphabet.
CharCode(c) == IF IsHexDigit(c) /\ HexVal(c) < 10 THEN 48 + HexVal(c)
               ELSE IF IsHexDigit(c) THEN 87 + HexVal(c)
               ELSE IF c = "x" THEN 120
               ELSE 63

startsWith0x(s) == Len(s) >= 2 /\ s[1] = "0" /\ s[2] = "x"

slice2(s) == SubSeq(s, 3, Len(s))

RECURSIVE HexValue(_)
HexValue(ds) == IF ds = <<>> THEN 0
                ELSE HexValue(SubSeq(ds, 1, Len(ds) - 1)) * 16 + HexVal(ds[Len(ds)])

RECURSIVE BytesValue(_)
BytesValue(bs) == IF bs = <<>> THEN 0
                  ELSE BytesValue(SubSeq(bs, 1, Len(bs) - 1)) * 256 + bs[Len(bs)]

RECURSIVE padStart(_, _)
padStart(s, n) == IF Len(s) >= n THEN s ELSE padStart(<<"0">> \o s, n)

RECURSIVE HexOf(_, _)
HexOf(n, digits) == IF digits = 0 THEN <<>>
                    ELSE HexOf(n \div 16, digits - 1) \o <<HexDigits[(n % 16) + 1]>>

----------------------------------------------------------------------------
(* Field elements of the SDK *)

Fr(n) == <<"fr", n>>

\* Fr.toString(): 0x followed by the full-width hex digits; the string of a
\* hash output is the canonical string of that term.
FrToString(f) == IF f[1] = "fr" THEN <<"0", "x">> \o HexOf(f[2], 2 * SIZE_IN_BYTES)
                 ELSE <<"0x", f>>

poseidon2Hash(input) == <<"poseidon2", input>>

\* poseidon2HashWithSeparator prepends the separator as a field element.
poseidon2HashWithSeparator(input, separator) == poseidon2Hash(<<Fr(separator)>> \o input)

----------------------------------------------------------------------------
(* Helpers (src/cli/utils/helpers.ts) *)

\* validateHexString: TRUE iff it throws 'odd number of digits'.
validateHexString(value) == startsWith0x(value) /\ Len(slice2(value)) % 2 # 0

\* The result of a call that may throw.
Ok(f) == [ok |-> TRUE, err |-> "", fr |-> f]

Err(e) == [ok |-> FALSE, err |-> e, fr |-> Fr(0)]

\* BigInt(value) on a 0x-prefixed text throws a SyntaxError when no digit
\* follows the prefix or a character is not a hex digit.
BigIntSyntaxError(value) == \/ slice2(value) = <<>>
                            \/ \E i \in 3..Len(value) : ~IsHexDigit(value[i])

\* The UTF-8 bytes of a text copied into a zeroed buffer of SIZE_IN_BYTES.
PaddedUtf8(value) == [i \in 1..SIZE_IN_BYTES |->
                         IF i <= Len(value) THEN CharCode(value[i]) ELSE 0]

\* Mutant: an odd number of hex digits is accepted, as BigInt reads it.
stringToFr_PadsOdd(value) ==
    IF startsWith0x(value)
    THEN IF BigIntSyntaxError(value) THEN Err("SyntaxError")
         ELSE IF HexValue(slice2(value)) >= MODULUS THEN Err("FieldRange")
         ELSE Ok(Fr(HexValue(slice2(value))))
    ELSE Ok(Fr(BytesValue(PaddedUtf8(value))))

\* Mutant: a hex value at or above the modulus is reduced instead of rejected.
stringToFr_Wraps(value) ==
    IF startsWith0x(value)
    THEN IF validateHexString(value) THEN Err("InvalidHexDigits")
         ELSE IF BigIntSyntaxError(value) THEN Err("SyntaxError")
         ELSE Ok(Fr(HexValue(slice2(value)) % MODULUS))
    ELSE Ok(Fr(BytesValue(PaddedUtf8(value))))

\* Mutant: a text of decimal digits is read as the number it spells.
RECURSIVE DecimalValue(_)
DecimalValue(ds) == IF ds = <<>> THEN 0
                    ELSE DecimalValue(SubSeq(ds, 1, Len(ds) - 1)) * 10 + HexVal(ds[Len(ds)])

stringToFr_Numeric(value) ==
    IF startsWith0x(value)
    THEN IF validateHexString(value) THEN Err("InvalidHexDigits")
         ELSE IF BigIntSyntaxError(value) THEN Err("SyntaxError")
         ELSE IF HexValue(slice2(value)) >= MODULUS THEN Err("FieldRange")
         ELSE Ok(Fr(HexValue(slice2(value))))
    ELSE IF /\ Len(value) >= 1
            /\ \A i \in 1..Len(value) : IsHexDigit(value[i]) /\ HexVal(value[i]) < 10
    THEN IF DecimalValue(value) >= MODULUS THEN Err("FieldRange")
         ELSE Ok(Fr(DecimalValue(value)))
    ELSE Ok(Fr(BytesValue(PaddedUtf8(value))))

\* The text is the string of a hash output, as FrToString writes it.
IsHashString(value) == Len(value) = 2 /\ value[1] = "0x"

\* stringToFr: hex path through validateHexString and new Fr(BigInt(value)),
\* which the SDK rejects at or above the modulus; text path through
\* Fr.fromBuffer of the padded UTF-8 bytes.  The string of a hash output is
\* full-width hex below the modulus and parses to that output.
stringToFr(value) ==
    IF IsHashString(value) THEN Ok(value[2])
    ELSE IF startsWith0x(value)
    THEN IF validateHexString(value) THEN Err("InvalidHexDigits")
         ELSE IF BigIntSyntaxError(value) THEN Err("SyntaxError")
         ELSE IF HexValue(slice2(value)) >= MODULUS THEN Err("FieldRange")
         ELSE Ok(Fr(HexValue(slice2(value))))
    ELSE Ok(Fr(BytesValue(PaddedUtf8(value))))

\* Mutant: the prefix of the input is padded with the digits instead of
\* being dropped first.
normalizeAddress_KeepsPrefix(address) ==
    <<"0", "x">> \o padStart(address, 2 * SIZE_IN_BYTES)

normalizeAddress(address) ==
    IF startsWith0x(address)
    THEN <<"0", "x">> \o padStart(slice2(address), 2 * SIZE_IN_BYTES)
    ELSE <<"0", "x">> \o padStart(address, 2 * SIZE_IN_BYTES)

\* AztecAddress.fromString(normalized).toField(): the SDK wants exactly
\* SIZE_IN_BYTES bytes of hex.
AddressToField(normalized) ==
    IF \/ Len(slice2(normalized)) # 2 * SIZE_IN_BYTES
       \/ \E i \in 3..Len(normalized) : ~IsHexDigit(normalized[i])
    THEN Err("InvalidAddress")
    ELSE Ok(Fr(HexValue(slice2(normalized))))

\* Array.prototype.map(stringToFr): index of the first element that throws,
\* 0 when none does.
FirstBad(texts) ==
    IF \E i \in 1..Len(texts) : ~stringToFr(texts[i]).ok
    THEN CHOOSE i \in 1..Len(texts) :
            /\ ~stringToFr(texts[i]).ok
            /\ \A j \in 1..(i - 1) : stringToFr(texts[j]).ok
    ELSE 0

MapStringToFr(texts) == [i \in 1..Len(texts) |-> stringToFr(texts[i]).fr]

\* The texts handed to stringToFr by a map over texts, up to the one that throws.
Attempted(texts) == IF FirstBad(texts) = 0 THEN texts ELSE SubSeq(texts, 1, FirstBad(texts))

----------------------------------------------------------------------------
(* NoteUtils.computeNoteHash (src/cli/utils/note.ts) *)

\* The promise's settlement: not settled, a bare string, an object, or a
\* rejection.  obj holds the keys of the returned object, None when unset.
EmptyObj == [rawNoteHash |-> None, siloedNoteHash |-> None, uniqueNoteHash |-> None]

NoOutcome == [kind |-> "none", value |-> None, obj |-> EmptyObj, error |-> ""]

NoItems == [kind |-> "undefined", items |-> <<>>]

NoParams == [rawNoteHash |-> None, siloedNoteHash |-> None, noteItems |-> NoItems,
             storageSlot |-> None, partial |-> FALSE, contractAddress |-> None,
             noteNonce |-> None]

\* The locals of one invocation.  parsed lists the texts handed to
\* stringToFr and hashCalls the <<separator, input>> of every hash call, in
\* order; pending is the result of the hash call being awaited.
Idle == [pc |-> "idle", p |-> NoParams,
         rawNoteHash |-> None, rawNoteHashStr |-> None,
         siloedNoteHash |-> None, siloedNoteHashStr |-> None,
         uniqueNoteHashStr |-> None, valueFr |-> None, pending |-> None,
         parsed |-> <<>>, hashCalls |-> <<>>, outcome |-> NoOutcome]

\* Mutant: the four hash locals are declared outside the function and keep
\* what the last invocation left in them.
Enter_StaleLocals(p) ==
    [Idle EXCEPT !.p = p, !.pc = "start",
                 !.rawNoteHash = call.rawNoteHash,
                 !.rawNoteHashStr = call.rawNoteHashStr,
                 !.siloedNoteHash = call.siloedNoteHash,
                 !.siloedNoteHashStr = call.siloedNoteHashStr]

\* Lines 381-394: the parameters are read and the locals declared, unset.
Enter(p) == [Idle EXCEPT !.p = p, !.pc = "start"]

Throw(c, e) == [c EXCEPT !.pc = "done",
                         !.outcome = [NoOutcome EXCEPT !.kind = "error", !.error = e]]

\* A call of poseidon2HashWithSeparator whose promise is awaited at pc next.
AwaitHash(c, input, separator, next) ==
    [c EXCEPT !.pending = Some(poseidon2HashWithSeparator(input, separator)),
              !.hashCalls = Append(@, [stage |-> next, separator |-> separator,
                                       input |-> input]),
              !.pc = next]

\* Line 431: noteItems.slice(0, -1).
privateItemsOf(noteItems) == SubSeq(noteItems, 1, Len(noteItems) - 1)

\* Mutant: the first item is taken as the value.
valueOf_First(noteItems) == noteItems[1]

\* Line 432: noteItems[noteItems.length - 1].
valueOf(noteItems) == noteItems[Len(noteItems)]

\* Line 439: [...privateItemsFr, storageSlotFr].
commitmentInputs(privateItemsFr, storageSlotFr) == Append(privateItemsFr, storageSlotFr)

\* Mutant: the value is hashed before the commitment.
finalInputs_ValueFirst(commitment, valueFr) == <<valueFr, commitment>>

\* Line 446: [commitment, valueFr].
finalInputs(commitment, valueFr) == <<commitment, valueFr>>

\* Mutant: the slot is hashed first.
rawNoteHashInputs_SlotFirst(noteItemsFr, storageSlotFr) == <<storageSlotFr>> \o noteItemsFr

\* Line 458: [...noteItemsFr, storageSlotFr].
\* Mutant: the storage slot is left out of the raw hash.
rawNoteHashInputs_NoSlot(noteItemsFr, storageSlotFr) == noteItemsFr

rawNoteHashInputs(noteItemsFr, storageSlotFr) == Append(noteItemsFr, storageSlotFr)

\* Mutant: the raw hash is hashed before the contract address.
siloedInputs_Swapped(contractAddrFr, rawNoteHash) == <<rawNoteHash, contractAddrFr>>

\* Line 474: [contractAddrFr, rawNoteHash].
siloedInputs(contractAddrFr, rawNoteHash) == <<contractAddrFr, rawNoteHash>>

\* Mutant: the siloed hash is hashed before the nonce.
uniqueInputs_Swapped(noteNonceFr, siloedNoteHash) == <<siloedNoteHash, noteNonceFr>>

\* Line 497: [noteNonceFr, siloedNoteHash].
uniqueInputs(noteNonceFr, siloedNoteHash) == <<noteNonceFr, siloedNoteHash>>

\* Mutant: the partial check is made before the slot is parsed.
CheckItems_PartialFirst(c) ==
    LET p == c.p
        c1 == [c EXCEPT !.parsed = Append(@, p.storageSlot[1])]
    IN  IF p.noteItems.kind # "array" THEN Throw(c, "MissingItems")
        ELSE IF IsNullish(p.storageSlot) THEN Throw(c, "MissingSlot")
        ELSE IF p.partial /\ Len(p.noteItems.items) < 2
             THEN Throw(c, "PartialRequiresTwoItems")
        ELSE IF ~stringToFr(p.storageSlot[1]).ok
             THEN Throw(c1, stringToFr(p.storageSlot[1]).err)
        ELSE c1

\* Lines 410-428: the checks on noteItems and storageSlot, the slot being
\* parsed before the partial check; pc stays "start" when all pass.
CheckItems(c) ==
    LET p == c.p
        c1 == [c EXCEPT !.parsed = Append(@, p.storageSlot[1])]
    IN  IF p.noteItems.kind # "array" THEN Throw(c, "MissingItems")
        ELSE IF IsNullish(p.storageSlot) THEN Throw(c, "MissingSlot")
        ELSE IF ~stringToFr(p.storageSlot[1]).ok
             THEN Throw(c1, stringToFr(p.storageSlot[1]).err)
        ELSE IF p.partial /\ Len(p.noteItems.items) < 2
             THEN Throw(c1, "PartialRequiresTwoItems")
        ELSE c1

\* Mutant: the partial flag is not looked at when hashing.
HashItems_IgnoresPartial(c) ==
    LET noteItems == c.p.noteItems.items
        storageSlotFr == stringToFr(c.p.storageSlot[1]).fr
        c4 == [c EXCEPT !.parsed = @ \o Attempted(noteItems)]
    IN  IF FirstBad(noteItems) # 0
        THEN Throw(c4, stringToFr(noteItems[FirstBad(noteItems)]).err)
        ELSE AwaitHash(c4, rawNoteHashInputs(MapStringToFr(noteItems), storageSlotFr),
                       NOTE_HASH, "await_raw")

\* Lines 430-443 and 453-462: parse the items and call the first hash.
HashItems(c) ==
    LET noteItems == c.p.noteItems.items
        storageSlotFr == stringToFr(c.p.storageSlot[1]).fr
        privateItems == privateItemsOf(noteItems)
        value == valueOf(noteItems)
        c2 == [c EXCEPT !.parsed = @ \o Attempted(privateItems)]
        c3 == [c2 EXCEPT !.parsed = Append(@, value)]
        c4 == [c EXCEPT !.parsed = @ \o Attempted(noteItems)]
    IN  IF c.p.partial
        THEN IF FirstBad(privateItems) # 0
             THEN Throw(c2, stringToFr(privateItems[FirstBad(privateItems)]).err)
             ELSE IF ~stringToFr(value).ok THEN Throw(c3, stringToFr(value).err)
             ELSE AwaitHash([c3 EXCEPT !.valueFr = Some(stringToFr(value).fr)],
                            commitmentInputs(MapStringToFr(privateItems), storageSlotFr),
                            NOTE_HASH, "await_commitment")
        ELSE IF FirstBad(noteItems) # 0
             THEN Throw(c4, stringToFr(noteItems[FirstBad(noteItems)]).err)
        ELSE AwaitHash(c4, rawNoteHashInputs(MapStringToFr(noteItems), storageSlotFr),
                       NOTE_HASH, "await_raw")

\* Lines 408-464: compute the raw hash from noteItems and storageSlot.
FromItems(c) == IF CheckItems(c).pc = "done" THEN CheckItems(c)
                ELSE HashItems(CheckItems(c))

\* Mutant: the siloed hash is parsed before the contract address is checked.
SiloedStart_ParseFirst(c) ==
    LET r == stringToFr(c.p.siloedNoteHash[1])
        c1 == [c EXCEPT !.parsed = Append(@, c.p.siloedNoteHash[1])]
    IN  IF ~r.ok THEN Throw(c1, r.err)
        ELSE IF ~Truthy(c.p.contractAddress) THEN Throw(c1, "SiloRequiresContract")
        ELSE [c1 EXCEPT !.siloedNoteHash = Some(r.fr),
                        !.siloedNoteHashStr = c.p.siloedNoteHash,
                        !.pc = "silo"]

\* Lines 397-403: start from the siloed hash.
SiloedStart(c) ==
    LET r == stringToFr(c.p.siloedNoteHash[1])
        c1 == [c EXCEPT !.parsed = Append(@, c.p.siloedNoteHash[1])]
    IN  IF ~Truthy(c.p.contractAddress) THEN Throw(c, "SiloRequiresContract")
        ELSE IF ~r.ok THEN Throw(c1, r.err)
        ELSE [c1 EXCEPT !.siloedNoteHash = Some(r.fr),
                        !.siloedNoteHashStr = c.p.siloedNoteHash,
                        !.pc = "silo"]

\* Mutant: the raw hash is reported as the string of the parsed field element.
RawStart_Canonical(c) ==
    LET r == stringToFr(c.p.rawNoteHash[1])
        c1 == [c EXCEPT !.parsed = Append(@, c.p.rawNoteHash[1])]
    IN  IF ~r.ok THEN Throw(c1, r.err)
        ELSE [c1 EXCEPT !.rawNoteHash = Some(r.fr),
                        !.rawNoteHashStr = Some(FrToString(r.fr)),
                        !.pc = "silo"]

\* Lines 404-407: start from the raw hash.
RawStart(c) ==
    LET r == stringToFr(c.p.rawNoteHash[1])
        c1 == [c EXCEPT !.parsed = Append(@, c.p.rawNoteHash[1])]
    IN  IF ~r.ok THEN Throw(c1, r.err)
        ELSE [c1 EXCEPT !.rawNoteHash = Some(r.fr),
                        !.rawNoteHashStr = c.p.rawNoteHash,
                        !.pc = "silo"]

\* Mutant: a given raw hash takes priority over a given siloed hash.
StartingPoint_RawFirst(c) ==
    IF Truthy(c.p.rawNoteHash) THEN RawStart(c)
    ELSE IF Truthy(c.p.siloedNoteHash) THEN SiloedStart(c)
    ELSE FromItems(c)

\* Lines 396-465: determine the starting point.
StartingPoint(c) ==
    IF Truthy(c.p.siloedNoteHash) THEN SiloedStart(c)
    ELSE IF Truthy(c.p.rawNoteHash) THEN RawStart(c)
    ELSE FromItems(c)

\* Lines 440-450: the commitment resolved; hash it with the value.
AfterCommitment(c) ==
    AwaitHash(c, finalInputs(c.pending[1], c.valueFr[1]), NOTE_HASH, "await_raw")

\* Lines 447-451 and 459-463: the raw hash resolved.
AfterRaw(c) ==
    [c EXCEPT !.rawNoteHash = c.pending,
              !.rawNoteHashStr = Some(FrToString(c.pending[1])),
              !.pc = "silo"]

\* Line 468: !siloedNoteHash && contractAddress && rawNoteHash.
NeedsSilo(c) ==
    c.siloedNoteHash = None /\ Truthy(c.p.contractAddress) /\ c.rawNoteHash # None

\* Lines 467-480: silo the raw hash when a contract is given.
Silo(c) ==
    LET a == AddressToField(normalizeAddress(c.p.contractAddress[1])) IN
    IF NeedsSilo(c)
    THEN IF ~a.ok THEN Throw(c, a.err)
         ELSE AwaitHash(c, siloedInputs(a.fr, c.rawNoteHash[1]),
                        SILOED_NOTE_HASH, "await_siloed")
    ELSE [c EXCEPT !.pc = "ret"]

\* Lines 475-479: the siloed hash resolved.
AfterSiloed(c) ==
    [c EXCEPT !.siloedNoteHash = c.pending,
              !.siloedNoteHashStr = Some(FrToString(c.pending[1])),
              !.pc = "ret"]

\* Lines 506-520: the object of the hashes that have a string.
Result(c) ==
    [c EXCEPT !.pc = "done",
              !.outcome = [NoOutcome EXCEPT
                             !.kind = "object",
                             !.obj = [rawNoteHash |-> c.rawNoteHashStr,
                                      siloedNoteHash |-> c.siloedNoteHashStr,
                                      uniqueNoteHash |-> c.uniqueNoteHashStr]]]

\* Mutant: the bare return does not look at the siloed hash.
ReturnsBare_IgnoresSiloed(c) == c.rawNoteHashStr # None /\ ~Truthy(c.p.noteNonce)

\* Mutant: the bare return does not look at the nonce.
ReturnsBare_IgnoresNonce(c) == c.rawNoteHashStr # None /\ c.siloedNoteHashStr = None

\* Line 483: rawNoteHashStr && !siloedNoteHashStr && !noteNonce.
ReturnsBare(c) ==
    c.rawNoteHashStr # None /\ c.siloedNoteHashStr = None /\ ~Truthy(c.p.noteNonce)

\* Lines 482-503: the bare return, then the unique stage.
ReturnOrUnique(c) ==
    LET n == stringToFr(c.p.noteNonce[1])
        c1 == [c EXCEPT !.parsed = Append(@, c.p.noteNonce[1])]
    IN  IF ReturnsBare(c)
        THEN [c EXCEPT !.pc = "done",
                       !.outcome = [NoOutcome EXCEPT !.kind = "bare",
                                                     !.value = c.rawNoteHashStr]]
        ELSE IF Truthy(c.p.noteNonce)
        THEN IF c.siloedNoteHash = None THEN Throw(c, "UniqueRequiresSiloed")
             ELSE IF ~n.ok THEN Throw(c1, n.err)
             ELSE AwaitHash(c1, uniqueInputs(n.fr, c.siloedNoteHash[1]),
                            UNIQUE_NOTE_HASH, "await_unique")
        ELSE Result(c)

\* Lines 498-502: the unique hash resolved.
AfterUnique(c) ==
    Result([c EXCEPT !.uniqueNoteHashStr = Some(FrToString(c.pending[1]))])

\* The synchronous run of the function body up to its next await or its end.
RECURSIVE Run(_)
Run(c) == IF c.pc = "start" THEN Run(StartingPoint(c))
          ELSE IF c.pc = "silo" THEN Run(Silo(c))
          ELSE IF c.pc = "ret" THEN Run(ReturnOrUnique(c))
          ELSE c

----------------------------------------------------------------------------
(* Inputs drawn by the model *)

RECURSIVE SeqsUpTo(_, _)
SeqsUpTo(S, n) == IF n = 0 THEN {<<>>}
                  ELSE LET shorter == SeqsUpTo(S, n - 1)
                       IN  shorter \cup {Append(s, x) : s \in shorter, x \in S}

\* "0x01", the odd-length "0x1" and the UTF-8 text "4".
ItemTexts == {<<"0", "x", "0", "1">>, <<"0", "x", "1">>, <<"4">>}

ItemsInputs == {NoItems, [kind |-> "string", items |-> <<>>]}
               \cup {[kind |-> "array", items |-> s] : s \in SeqsUpTo(ItemTexts, MaxItems)}

\* "0x07", "0x1" and the empty string.
SlotInputs == Opt({<<"0", "x", "0", "7">>, <<"0", "x", "1">>, <<>>})

\* "0x0a" and "0x1".
SiloedInputs == Opt({<<"0", "x", "0", "a">>, <<"0", "x", "1">>})

\* "0x0b" and "0x1".
RawInputs == Opt({<<"0", "x", "0", "b">>, <<"0", "x", "1">>})

\* "0x01", the unprefixed "02" and "0x0000001", too long for an address.
ContractInputs == Opt({<<"0", "x", "0", "1">>, <<"0", "2">>,
                       <<"0", "x", "0", "0", "0", "0", "0", "0", "1">>})

\* "0x05", "0x1" and the empty string.
NonceInputs == Opt({<<"0", "x", "0", "5">>, <<"0", "x", "1">>, <<>>})

ParamsInputs == [rawNoteHash : RawInputs, siloedNoteHash : SiloedInputs,
                 noteItems : ItemsInputs, storageSlot : SlotInputs,
                 partial : BOOLEAN, contractAddress : ContractInputs,
                 noteNonce : NonceInputs]

----------------------------------------------------------------------------
(* The resting state of the other components *)

\* No codec or hash utility has been called yet.  op..out describe the
\* call whose promise settled last and has not been taken by the caller;
\* waiting lists the calls suspended at the await of their hash.
CodecIdle == [op |-> "idle", kind |-> "undefined", input |-> <<>>, index |-> <<>>,
              out |-> [ok |-> TRUE, err |-> "", value |-> <<>>], waiting |-> <<>>]

NoLogParams == [ciphertext |-> NoItems, recipientAddress |-> None,
                recipientSecretKey |-> None]

NoLogOutcome == [kind |-> "none", value |-> <<>>, error |-> ""]

\* The locals of one invocation of decryptRawPrivateLog.  events lists the
\* parsing and SDK calls made, in order; pending is the settlement of the
\* call being awaited.
LogIdle == [pc |-> "idle", p |-> NoLogParams, events |-> <<>>,
            ciphertextBytes |-> <<>>, ephPk |-> None, completeAddress |-> None,
            addressSecret |-> None, sharedSecret |-> None, rands |-> <<>>,
            ciphertextLength |-> None, pending |-> None, outcome |-> NoLogOutcome]

\* No settled invocation is remembered by the caller.
NoPrev == [note |-> None, log |-> None]

\* Most invocations a caller has in flight at once.
MaxTasks == 2

\* A caller's slot holding no invocation: fn is the function invoked, arg the
\* parameters passed, c the locals of the invocation, and interleaved tells
\* that it resumed while another invocation was in flight.
NoTask == [fn |-> "none", arg |-> <<>>, c |-> Idle, interleaved |-> FALSE]

NoTasks == [i \in 1..MaxTasks |-> NoTask]

\* The CLI process before a command runs: nothing written to either stream
\* and no exit status set.  core holds the locals of the utility awaited.
CliIdle == [pc |-> "idle", cmd |-> "", options |-> <<>>, json |-> FALSE, core |-> Idle,
            stdout |-> <<>>, stderr |-> <<>>, exit |-> None]

----------------------------------------------------------------------------
(* The state machine: one invocation at a time, one action per await *)

Init == /\ call = Idle /\ codec = CodecIdle /\ log = LogIdle /\ prev = NoPrev
        /\ tasks = NoTasks /\ cli = CliIdle

\* computeNoteHash(params) is called and runs to its first await or its end.
Invoke == /\ call.pc = "idle"
          /\ \E p \in ParamsInputs : call' = Run(Enter(p))
          /\ UNCHANGED otherThanCall

ResolveCommitment == /\ call.pc = "await_commitment"
                     /\ call' = Run(AfterCommitment(call))
                     /\ UNCHANGED otherThanCall

ResolveRaw == /\ call.pc = "await_raw"
              /\ call' = Run(AfterRaw(call))
              /\ UNCHANGED otherThanCall

ResolveSiloed == /\ call.pc = "await_siloed"
                 /\ call' = Run(AfterSiloed(call))
                 /\ UNCHANGED otherThanCall

ResolveUnique == /\ call.pc = "await_unique"
                 /\ call' = Run(AfterUnique(call))
                 /\ UNCHANGED otherThanCall

\* The caller takes the settled promise.
Settle == /\ call.pc = "done"
          /\ call' = Idle
          /\ UNCHANGED otherThanCall

Next == \/ Invoke
        \/ ResolveCommitment
        \/ ResolveRaw
        \/ ResolveSiloed
        \/ ResolveUnique
        \/ Settle

Spec == Init /\ [][Next]_vars

----------------------------------------------------------------------------
(* Shorthands over a settled invocation *)

Done == call.pc = "done"

Succeeded == Done /\ call.outcome.kind \in {"bare", "object"}

Failed(e) == Done /\ call.outcome.kind = "error" /\ call.outcome.error = e

\* The starting point the inputs select.
FromSiloed == Truthy(call.p.siloedNoteHash)

FromRaw == ~FromSiloed /\ Truthy(call.p.rawNoteHash)

StartsFromItems == ~FromSiloed /\ ~Truthy(call.p.rawNoteHash)

\* The raw hash the call reports, bare or as the rawNoteHash key.
ReportedRaw == IF call.outcome.kind = "bare" THEN call.outcome.value
               ELSE call.outcome.obj.rawNoteHash

H_NOTE(input) == poseidon2HashWithSeparator(input, NOTE_HASH)

H_SILO(input) == poseidon2HashWithSeparator(input, SILOED_NOTE_HASH)

H_UNIQUE(input) == poseidon2HashWithSeparator(input, UNIQUE_NOTE_HASH)

\* The texts of the call's parameters and the field elements they parse to.
Items == call.p.noteItems.items

ItemFr(i) == stringToFr(Items[i]).fr

SlotFr == stringToFr(call.p.storageSlot[1]).fr

ContractFr == AddressToField(normalizeAddress(call.p.contractAddress[1])).fr

NonceFr == stringToFr(call.p.noteNonce[1]).fr

HasCall(stage) == \E i \in 1..Len(call.hashCalls) : call.hashCalls[i].stage = stage

----------------------------------------------------------------------------
(* Claims C1-C10: NoteUtils.computeNoteHash *)

\* C1: started from note items in standard mode, the raw note hash is the
\* NOTE_HASH-separated hash of the parsed items in supplied order followed
\* by the parsed slot as the last element, and that is the raw hash reported.
C1_StandardRawHash ==
    (StartsFromItems /\ ~call.p.partial /\ call.rawNoteHash # None) =>
        LET h == call.hashCalls[1] IN
        /\ h.separator = NOTE_HASH
        /\ Len(h.input) = Len(Items) + 1
        /\ \A i \in 1..Len(Items) : h.input[i] = ItemFr(i)
        /\ h.input[Len(h.input)] = SlotFr
        /\ call.rawNoteHash = Some(H_NOTE(h.input))
        /\ ~HasCall("await_commitment")
        /\ (Succeeded => ReportedRaw = Some(FrToString(H_NOTE(h.input))))

C1_Witness ==
    /\ Succeeded /\ StartsFromItems /\ ~call.p.partial
    /\ call.outcome.kind = "bare"
    /\ Len(Items) = 2 /\ Items[1] # Items[2]

\* C2: in partial mode with n >= 2 items the commitment is the NOTE_HASH
\* hash of items 1..n-1 followed by the slot, and the raw hash is the
\* NOTE_HASH hash of the commitment followed by the last item.
C2_PartialRawHash ==
    (StartsFromItems /\ call.p.partial /\ call.rawNoteHash # None) =>
        LET n == Len(Items)
            first == call.hashCalls[1]
            second == call.hashCalls[2]
        IN  /\ n >= 2
            /\ first.separator = NOTE_HASH
            /\ Len(first.input) = n
            /\ \A i \in 1..(n - 1) : first.input[i] = ItemFr(i)
            /\ first.input[n] = SlotFr
            /\ second.separator = NOTE_HASH
            /\ second.input = <<H_NOTE(first.input), ItemFr(n)>>
            /\ call.rawNoteHash = Some(H_NOTE(second.input))
            /\ (Succeeded => ReportedRaw = Some(FrToString(H_NOTE(second.input))))

C2_Witness ==
    /\ Succeeded /\ StartsFromItems /\ call.p.partial
    /\ Len(Items) = 3 /\ Items[1] # Items[3] /\ Items[2] # Items[3]

\* C3: with a contract address, no siloed hash given and a raw hash
\* available, the siloed hash is H_SILO(contractAddress, raw); with neither
\* a contract address nor a given siloed hash, no siloed hash is produced.
C3_SiloedHash ==
    /\ (/\ Truthy(call.p.contractAddress) /\ ~FromSiloed
        /\ call.rawNoteHash # None
        /\ call.pc \in {"await_unique", "done"}
        /\ ~Failed("InvalidAddress"))
       => /\ call.siloedNoteHash = Some(H_SILO(<<ContractFr, call.rawNoteHash[1]>>))
          /\ (Succeeded => call.outcome.obj.siloedNoteHash =
                               Some(FrToString(H_SILO(<<ContractFr, call.rawNoteHash[1]>>))))
    /\ (~Truthy(call.p.contractAddress) /\ ~FromSiloed)
       => /\ call.siloedNoteHash = None
          /\ ~HasCall("await_siloed")
          /\ (Succeeded => call.outcome.obj.siloedNoteHash = None)

C3_Witness ==
    /\ Succeeded /\ StartsFromItems /\ Truthy(call.p.contractAddress)
    /\ call.outcome.obj.siloedNoteHash # None
    /\ call.outcome.obj.rawNoteHash # None

\* The siloed hash the unique stage is to use: the given one if one was
\* supplied, the one computed from the contract address and the raw hash
\* otherwise.
SiloedUsed == IF FromSiloed THEN stringToFr(call.p.siloedNoteHash[1]).fr
              ELSE H_SILO(<<ContractFr, call.rawNoteHash[1]>>)

\* C4: with a note nonce and a siloed hash available the result contains
\* unique = H_UNIQUE(nonce, siloed); without a nonce no unique hash is ever
\* produced.
C4_UniqueHash ==
    /\ (/\ Truthy(call.p.noteNonce) /\ stringToFr(call.p.noteNonce[1]).ok
        /\ call.siloedNoteHash # None /\ Done)
       => /\ Succeeded
          /\ call.outcome.kind = "object"
          /\ call.outcome.obj.uniqueNoteHash =
                 Some(FrToString(H_UNIQUE(<<NonceFr, SiloedUsed>>)))
    /\ ~Truthy(call.p.noteNonce)
       => /\ call.uniqueNoteHashStr = None
          /\ ~HasCall("await_unique")
          /\ call.outcome.obj.uniqueNoteHash = None

C4_Witness ==
    /\ Succeeded /\ FromSiloed /\ Truthy(call.p.noteNonce)
    /\ call.outcome.obj.uniqueNoteHash # None

\* The outcome of a call that starts from a siloed hash, as a function of the
\* siloed hash, the contract address and the nonce alone.
OutcomeFromSiloed(siloed, contract, nonce) ==
    IF ~Truthy(contract)
    THEN [NoOutcome EXCEPT !.kind = "error", !.error = "SiloRequiresContract"]
    ELSE IF ~stringToFr(siloed[1]).ok
    THEN [NoOutcome EXCEPT !.kind = "error", !.error = stringToFr(siloed[1]).err]
    ELSE IF ~Truthy(nonce)
    THEN [NoOutcome EXCEPT !.kind = "object", !.obj.siloedNoteHash = siloed]
    ELSE IF ~stringToFr(nonce[1]).ok
    THEN [NoOutcome EXCEPT !.kind = "error", !.error = stringToFr(nonce[1]).err]
    ELSE [NoOutcome EXCEPT
            !.kind = "object",
            !.obj.siloedNoteHash = siloed,
            !.obj.uniqueNoteHash =
                Some(FrToString(H_UNIQUE(<<stringToFr(nonce[1]).fr,
                                           stringToFr(siloed[1]).fr>>)))]

\* The outcome of a call that starts from a raw hash, as a function of the
\* raw hash, the contract address and the nonce alone.
OutcomeFromRaw(raw, contract, nonce) ==
    LET a == AddressToField(normalizeAddress(contract[1]))
        siloedFr == H_SILO(<<a.fr, stringToFr(raw[1]).fr>>)
    IN  IF ~stringToFr(raw[1]).ok
        THEN [NoOutcome EXCEPT !.kind = "error", !.error = stringToFr(raw[1]).err]
        ELSE IF ~Truthy(contract)
        THEN IF Truthy(nonce)
             THEN [NoOutcome EXCEPT !.kind = "error", !.error = "UniqueRequiresSiloed"]
             ELSE [NoOutcome EXCEPT !.kind = "bare", !.value = raw]
        ELSE IF ~a.ok
        THEN [NoOutcome EXCEPT !.kind = "error", !.error = a.err]
        ELSE IF ~Truthy(nonce)
        THEN [NoOutcome EXCEPT !.kind = "object",
                               !.obj.rawNoteHash = raw,
                               !.obj.siloedNoteHash = Some(FrToString(siloedFr))]
        ELSE IF ~stringToFr(nonce[1]).ok
        THEN [NoOutcome EXCEPT !.kind = "error", !.error = stringToFr(nonce[1]).err]
        ELSE [NoOutcome EXCEPT
                !.kind = "object",
                !.obj.rawNoteHash = raw,
                !.obj.siloedNoteHash = Some(FrToString(siloedFr)),
                !.obj.uniqueNoteHash =
                    Some(FrToString(H_UNIQUE(<<stringToFr(nonce[1]).fr, siloedFr>>)))]

\* C5: the starting point is chosen by the priority siloed > raw > items:
\* with a siloed hash the outcome is a function of the siloed hash, the
\* contract address and the nonce only, and with a raw hash and no siloed
\* hash it is a function of the raw hash, the contract address and the nonce
\* only; the items and the slot are then neither parsed nor hashed.
C5_StartingPointPriority ==
    /\ (Done /\ FromSiloed)
       => /\ call.outcome = OutcomeFromSiloed(call.p.siloedNoteHash,
                                              call.p.contractAddress, call.p.noteNonce)
          /\ call.rawNoteHash = None
    /\ (Done /\ FromRaw)
       => call.outcome = OutcomeFromRaw(call.p.rawNoteHash,
                                        call.p.contractAddress, call.p.noteNonce)
    /\ (FromSiloed \/ FromRaw)
       => ~HasCall("await_commitment") /\ ~HasCall("await_raw")

C5_Witness ==
    /\ Succeeded /\ FromSiloed /\ Truthy(call.p.rawNoteHash)
    /\ call.p.noteItems.kind = "array" /\ Len(Items) > 0
    /\ call.p.storageSlot # None /\ call.p.partial

\* C6 as stated: a successful call returns a bare string exactly when no
\* contract address, no siloed hash and no nonce was given, and otherwise an
\* object whose keys are exactly the stages the call computed.
C6_OnlyComputedStages ==
    Succeeded =>
        /\ (call.outcome.kind = "bare") <=>
               (/\ ~Truthy(call.p.contractAddress)
                /\ ~Truthy(call.p.siloedNoteHash)
                /\ ~Truthy(call.p.noteNonce))
        /\ call.outcome.kind = "object" =>
               /\ (call.outcome.obj.rawNoteHash # None) <=> HasCall("await_raw")
               /\ (call.outcome.obj.siloedNoteHash # None) <=> HasCall("await_siloed")
               /\ (call.outcome.obj.uniqueNoteHash # None) <=> HasCall("await_unique")

\* C6 amended: a successful call returns a bare string exactly when no
\* contract address, no siloed hash and no nonce was given, and otherwise an
\* object whose keys are exactly the stages that have a hash, supplied by
\* the caller or computed by the call: the raw hash it started from or
\* computed, the siloed hash it started from or computed, and the unique
\* hash it computed.
C6_OutputShape ==
    Succeeded =>
        /\ (call.outcome.kind = "bare") <=>
               (/\ ~Truthy(call.p.contractAddress)
                /\ ~Truthy(call.p.siloedNoteHash)
                /\ ~Truthy(call.p.noteNonce))
        /\ call.outcome.kind = "bare" =>
               /\ call.outcome.value # None
               /\ FromRaw \/ HasCall("await_raw")
        /\ call.outcome.kind = "object" =>
               /\ (call.outcome.obj.rawNoteHash # None) <=> (FromRaw \/ HasCall("await_raw"))
               /\ (call.outcome.obj.siloedNoteHash # None) <=>
                      (FromSiloed \/ HasCall("await_siloed"))
               /\ (call.outcome.obj.uniqueNoteHash # None) <=> HasCall("await_unique")

\* A call from a supplied raw hash with a contract address returned an
\* object: rawNoteHash is a key though no raw hash was computed, and
\* siloedNoteHash is a key of a stage that was.
C6_Witness ==
    /\ Succeeded /\ call.outcome.kind = "object"
    /\ FromRaw /\ ~HasCall("await_raw")
    /\ call.outcome.obj.rawNoteHash # None
    /\ HasCall("await_siloed")
    /\ call.outcome.obj.siloedNoteHash # None
    /\ call.outcome.obj.uniqueNoteHash = None

\* C7: with a nonce but neither a given siloed hash nor a contract address
\* the call never succeeds and never hashes a unique stage, and once the raw
\* hash is there it fails with UniqueRequiresSiloed.
C7_UniqueRequiresSiloed ==
    (Truthy(call.p.noteNonce) /\ ~FromSiloed /\ ~Truthy(call.p.contractAddress)) =>
        /\ ~Succeeded
        /\ ~HasCall("await_unique")
        /\ (Done /\ call.rawNoteHash # None) => Failed("UniqueRequiresSiloed")

C7_Witness ==
    /\ Failed("UniqueRequiresSiloed") /\ StartsFromItems
    /\ HasCall("await_raw")

\* C8: a siloed hash given without a contract address fails with
\* SiloRequiresContract before anything is parsed or hashed, whatever the
\* other inputs are.
C8_SiloRequiresContract ==
    (Done /\ FromSiloed /\ ~Truthy(call.p.contractAddress)) =>
        /\ Failed("SiloRequiresContract")
        /\ call.parsed = <<>>
        /\ call.hashCalls = <<>>

C8_Witness ==
    /\ Failed("SiloRequiresContract")
    /\ ~stringToFr(call.p.siloedNoteHash[1]).ok
    /\ Truthy(call.p.rawNoteHash) /\ Truthy(call.p.noteNonce)
    /\ call.p.noteItems.kind = "array"

\* C9 as stated: started from items, the call is rejected before any hash
\* with MissingItems if noteItems is not an array, else MissingSlot if
\* storageSlot is absent, else PartialRequiresTwoItems if partial mode is
\* requested with fewer than 2 items.
C9_ChecksInStatedOrder ==
    (Done /\ StartsFromItems) =>
        /\ call.p.noteItems.kind # "array"
           => Failed("MissingItems") /\ call.hashCalls = <<>>
        /\ (call.p.noteItems.kind = "array" /\ IsNullish(call.p.storageSlot))
           => Failed("MissingSlot") /\ call.hashCalls = <<>>
        /\ (/\ call.p.noteItems.kind = "array" /\ ~IsNullish(call.p.storageSlot)
            /\ call.p.partial /\ Len(Items) < 2)
           => Failed("PartialRequiresTwoItems") /\ call.hashCalls = <<>>

\* C9 as amended: the storage slot is parsed between the MissingSlot check
\* and the partial check, so the order is MissingItems, MissingSlot, the
\* parse error of the slot, PartialRequiresTwoItems; no hash is computed and
\* no item is parsed in any of these rejections.
C9_ChecksInCodeOrder ==
    (Done /\ StartsFromItems) =>
        /\ call.p.noteItems.kind # "array"
           => Failed("MissingItems") /\ call.hashCalls = <<>> /\ call.parsed = <<>>
        /\ (call.p.noteItems.kind = "array" /\ IsNullish(call.p.storageSlot))
           => Failed("MissingSlot") /\ call.hashCalls = <<>> /\ call.parsed = <<>>
        /\ (/\ call.p.noteItems.kind = "array" /\ ~IsNullish(call.p.storageSlot)
            /\ ~stringToFr(call.p.storageSlot[1]).ok)
           => /\ Failed(stringToFr(call.p.storageSlot[1]).err)
              /\ call.hashCalls = <<>>
              /\ call.parsed = <<call.p.storageSlot[1]>>
        /\ (/\ call.p.noteItems.kind = "array" /\ ~IsNullish(call.p.storageSlot)
            /\ stringToFr(call.p.storageSlot[1]).ok
            /\ call.p.partial /\ Len(Items) < 2)
           => /\ Failed("PartialRequiresTwoItems")
              /\ call.hashCalls = <<>>
              /\ call.parsed = <<call.p.storageSlot[1]>>

C9_Witness ==
    /\ Failed("PartialRequiresTwoItems") /\ StartsFromItems
    /\ Len(Items) = 1 /\ ~stringToFr(Items[1]).ok

\* The separator each stage is to use.
StageTag(stage) == IF stage \in {"await_commitment", "await_raw"} THEN NOTE_HASH
                   ELSE IF stage = "await_siloed" THEN SILOED_NOTE_HASH
                   ELSE UNIQUE_NOTE_HASH

\* C10: the raw, siloed and unique stages use pairwise distinct separators:
\* every hash call is made with the separator of its stage, and hashing the
\* same field sequence with the separator of another stage gives another
\* value.
C10_DistinctSeparators ==
    \A i \in 1..Len(call.hashCalls) :
        LET h == call.hashCalls[i] IN
        /\ h.separator = StageTag(h.stage)
        /\ \A t \in {"await_raw", "await_siloed", "await_unique"} :
              (t # h.stage /\ ~(t = "await_raw" /\ h.stage = "await_commitment"))
              => /\ StageTag(t) # h.separator
                 /\ poseidon2HashWithSeparator(h.input, StageTag(t)) #
                        poseidon2HashWithSeparator(h.input, h.separator)

C10_Witness ==
    /\ Succeeded
    /\ HasCall("await_raw") /\ HasCall("await_siloed") /\ HasCall("await_unique")

----------------------------------------------------------------------------
(* HashUtils (src/cli/utils/hash.ts) and the codec as called on their own *)

\* Longest text drawn as an input of the codec.
MaxText == 6

\* Longest list drawn as an input of poseidon2 and computePedersenHash.
MaxList == 2

\* Buffer.from(hexPart, 'hex'): the bytes of the leading pairs of hex digits.
RECURSIVE BufferFromHex(_)
BufferFromHex(ds) ==
    IF Len(ds) < 2 \/ ~IsHexDigit(ds[1]) \/ ~IsHexDigit(ds[2]) THEN <<>>
    ELSE <<16 * HexVal(ds[1]) + HexVal(ds[2])>> \o BufferFromHex(SubSeq(ds, 3, Len(ds)))

\* Buffer.from(data, 'utf8') over the ASCII alphabet of the model.
BufferFromUtf8(data) == [i \in 1..Len(data) |-> CharCode(data[i])]

\* keccak256 and pedersenHash of the SDK, opaque and collision-free.
keccak256(bytes) == <<"keccak256", bytes>>

pedersenHash(input, index) == <<"pedersen", index, input>>

\* The settlement of a utility: a returned value or a thrown error.
Returns(v) == [ok |-> TRUE, err |-> "", value |-> v]

Throws(e) == [ok |-> FALSE, err |-> e, value |-> <<>>]

\* Helpers.stringToFr seen as a call of its own.
parseField(value) == IF stringToFr(value).ok THEN Returns(stringToFr(value).fr)
                     ELSE Throws(stringToFr(value).err)

\* HashUtils.keccak: the digest is returned as hex without a prefix.
keccak(data) ==
    IF startsWith0x(data)
    THEN IF Len(slice2(data)) % 2 # 0 THEN Throws("InvalidHexDigits")
         ELSE Returns(<<"hex", keccak256(BufferFromHex(slice2(data)))>>)
    ELSE Returns(<<"hex", keccak256(BufferFromUtf8(data))>>)

\* HashUtils.poseidon2 on a JSON array of strings.
poseidon2(fieldsArray) ==
    IF FirstBad(fieldsArray) # 0
    THEN Throws(stringToFr(fieldsArray[FirstBad(fieldsArray)]).err)
    ELSE Returns(FrToString(poseidon2Hash(MapStringToFr(fieldsArray))))

\* HashUtils.computePedersenHash on {inputs, index}; index is the optional
\* number of the JSON, `p.index || 0`.
computePedersenHash(inputs, index) ==
    IF inputs.kind # "array" THEN Throws("inputs must be a JSON array")
    ELSE IF FirstBad(inputs.items) # 0
    THEN Throws(stringToFr(inputs.items[FirstBad(inputs.items)]).err)
    ELSE Returns(FrToString(pedersenHash(MapStringToFr(inputs.items),
                                         IF index = None THEN 0 ELSE index[1])))

\* The characters of the texts drawn: hex digits, the x of the prefix (not a
\* hex digit) and the decimal digit 4.
Alphabet == {"0", "x", "1", "4", "f"}

CodecTexts == SeqsUpTo(Alphabet, MaxText)

\* The largest full-width hex text, at or above the modulus.
AllOnes == <<"0", "x">> \o [i \in 1..(2 * SIZE_IN_BYTES) |-> "f"]

\* "0x01", "0x04", the odd-length "0x1", the texts "4" and "1", "0xx1" with a
\* character that is no hex digit, and the out-of-range AllOnes.
ListTexts == {<<"0", "x", "0", "1">>, <<"0", "x", "0", "4">>, <<"0", "x", "1">>,
              <<"4">>, <<"1">>, <<"0", "x", "x", "1">>, AllOnes}

ListInputs == SeqsUpTo(ListTexts, MaxList)

PedersenInputs == {NoItems} \cup {[kind |-> "array", items |-> l] : l \in ListInputs}

\* Most hash utility calls suspended at their await at once.
MaxInFlight == 2

\* The inputs of the calls made while a call is suspended: the text "0x01",
\* the lists ["0x01"] and ["0x04"].
TextsNow == IF codec.waiting = <<>> THEN CodecTexts ELSE {<<"0", "x", "0", "1">>}

ListsNow == IF codec.waiting = <<>> THEN ListInputs
            ELSE {<<<<"0", "x", "0", "1">>>>, <<<<"0", "x", "0", "4">>>>}

PedersenNow == IF codec.waiting = <<>> THEN PedersenInputs \X Opt({0, 1})
               ELSE {<<[kind |-> "array", items |-> <<<<"0", "x", "0", "1">>>>], None>>}

\* A settled call: input holds the text, or the texts of the array, given.
\* The calls suspended stay as they are.
Called(op, kind, input, index, out) ==
    [op |-> op, kind |-> kind, input |-> input, index |-> index, out |-> out,
     waiting |-> codec.waiting]

\* A call that issued its hash and returned a pending promise: pending is
\* the field element the hash resolves to.
Suspended(op, kind, input, index, hash) ==
    [codec EXCEPT !.waiting = Append(@, [op |-> op, kind |-> kind, input |-> input,
                                         index |-> index, pending |-> hash])]

CallStringToFr == /\ codec.op = "idle"
                  /\ \E t \in TextsNow :
                        codec' = Called("stringToFr", "string", <<t>>, None, parseField(t))
                  /\ UNCHANGED otherThanCodec

CallNormalizeAddress == /\ codec.op = "idle"
                        /\ \E t \in TextsNow :
                              codec' = Called("normalizeAddress", "string", <<t>>, None,
                                              Returns(normalizeAddress(t)))
                        /\ UNCHANGED otherThanCodec

CallKeccak == /\ codec.op = "idle"
              /\ \E t \in TextsNow : codec' = Called("keccak", "string", <<t>>, None, keccak(t))
              /\ UNCHANGED otherThanCodec

\* Lines 57-59: a list that does not parse rejects the promise within the
\* call; otherwise the hash is issued and the call returns, pending.
CallPoseidon2 ==
    /\ codec.op = "idle"
    /\ Len(codec.waiting) < MaxInFlight
    /\ \E l \in ListsNow :
          codec' = IF ~poseidon2(l).ok
                   THEN Called("poseidon2", "array", l, None, poseidon2(l))
                   ELSE Suspended("poseidon2", "array", l, None,
                                  poseidon2Hash(MapStringToFr(l)))
    /\ UNCHANGED otherThanCodec

\* Lines 64-79: the same for computePedersenHash.
CallPedersen ==
    /\ codec.op = "idle"
    /\ Len(codec.waiting) < MaxInFlight
    /\ \E c \in PedersenNow :
          codec' = IF ~computePedersenHash(c[1], c[2]).ok
                   THEN Called("computePedersenHash", c[1].kind, c[1].items, c[2],
                               computePedersenHash(c[1], c[2]))
                   ELSE Suspended("computePedersenHash", c[1].kind, c[1].items, c[2],
                                  pedersenHash(MapStringToFr(c[1].items),
                                               IF c[2] = None THEN 0 ELSE c[2][1]))
    /\ UNCHANGED otherThanCodec

\* The sequence without its element i.
Without(seq, i) == SubSeq(seq, 1, i - 1) \o SubSeq(seq, i + 1, Len(seq))

\* Lines 59-60 and 79-81: the hash of a suspended call resolved; the call
\* resumes, converts the result with toString() and its promise settles.
ResolveHash ==
    /\ codec.op = "idle"
    /\ \E i \in 1..Len(codec.waiting) :
          codec' = [Called(codec.waiting[i].op, codec.waiting[i].kind,
                           codec.waiting[i].input, codec.waiting[i].index,
                           Returns(FrToString(codec.waiting[i].pending)))
                       EXCEPT !.waiting = Without(codec.waiting, i)]
    /\ UNCHANGED otherThanCodec

\* The caller takes the settled result.
CodecSettle == /\ codec.op # "idle"
               /\ codec' = [CodecIdle EXCEPT !.waiting = codec.waiting]
               /\ UNCHANGED otherThanCodec

NextCodec == \/ CallStringToFr
             \/ CallNormalizeAddress
             \/ CallKeccak
             \/ CallPoseidon2
             \/ CallPedersen
             \/ ResolveHash
             \/ CodecSettle

SpecCodec == Init /\ [][NextCodec]_vars

----------------------------------------------------------------------------
(* Claims C13-C17: the field codec and the hash utilities *)

\* A 0x-prefixed text with an odd number of characters after the prefix.
OddHex(t) == Len(t) >= 2 /\ t[1] = "0" /\ t[2] = "x" /\ (Len(t) - 2) % 2 = 1

\* The first odd-length hex element of a list, 0 when there is none.
FirstOdd(l) == IF \E i \in 1..Len(l) : OddHex(l[i])
               THEN CHOOSE i \in 1..Len(l) : OddHex(l[i]) /\ \A j \in 1..(i - 1) : ~OddHex(l[j])
               ELSE 0

ListOp == codec.op \in {"poseidon2", "computePedersenHash"} /\ codec.kind = "array"

\* C13: a 0x-prefixed input with an odd number of hex digits is rejected with
\* 'odd number of digits' by stringToFr and by keccak, whatever characters
\* follow the prefix; poseidon2 and computePedersenHash reject every list
\* holding such an element, with that error when the elements before it parse.
C13_OddHexRejected ==
    /\ codec.op \in {"stringToFr", "keccak"} /\ OddHex(codec.input[1])
           => codec.out = Throws("InvalidHexDigits")
    /\ ListOp /\ FirstOdd(codec.input) # 0
           => /\ ~codec.out.ok
              /\ (\A j \in 1..(FirstOdd(codec.input) - 1) : stringToFr(codec.input[j]).ok)
                     => codec.out = Throws("InvalidHexDigits")

\* poseidon2 was called on a list whose second element is odd-length hex and
\* threw 'odd number of digits'.
C13_Witness == /\ codec.op = "poseidon2"
               /\ FirstOdd(codec.input) = 2
               /\ codec.out = Throws("InvalidHexDigits")

\* A 0x-prefixed text of one or more pairs of hex digits, and its value.
ValidEvenHex(t) == /\ Len(t) >= 4 /\ t[1] = "0" /\ t[2] = "x" /\ Len(t) % 2 = 0
                   /\ \A i \in 3..Len(t) : IsHexDigit(t[i])

Denoted(t) == HexValue(SubSeq(t, 3, Len(t)))

\* The same number written with two more leading zeros, and at full width.
ZeroExtended(t) == <<"0", "x", "0", "0">> \o SubSeq(t, 3, Len(t))

FullWidth(n) == <<"0", "x">> \o HexOf(n, 2 * SIZE_IN_BYTES)

\* C14 as stated: stringToFr maps every valid even-length 0x-hex text to the
\* integer it denotes reduced mod p, wrapping values at or above p.
C14_ReducedModP ==
    codec.op = "stringToFr" /\ ValidEvenHex(codec.input[1])
        => codec.out = Returns(Fr(Denoted(codec.input[1]) % MODULUS))

\* C14 amended: stringToFr maps every valid even-length 0x-hex text denoting
\* a value below p to that integer and rejects one denoting p or more;
\* leading zero digits are insignificant, the full-width form included.
C14_RangeChecked ==
    codec.op = "stringToFr" /\ ValidEvenHex(codec.input[1])
        => LET t == codec.input[1]
           IN  /\ Denoted(t) < MODULUS
                     => /\ codec.out = Returns(Fr(Denoted(t)))
                        /\ parseField(FullWidth(Denoted(t))) = codec.out
               /\ Denoted(t) >= MODULUS => codec.out = Throws("FieldRange")
               /\ parseField(ZeroExtended(t)) = codec.out

\* stringToFr was called on valid hex denoting p or more and threw.
C14_Witness == /\ codec.op = "stringToFr"
               /\ ValidEvenHex(codec.input[1])
               /\ Denoted(codec.input[1]) >= MODULUS
               /\ codec.out = Throws("FieldRange")

\* C15: every field element stringToFr returns, on the hex path and on the
\* text path, is below the modulus, and so is every element that poseidon2
\* or computePedersenHash then feeds to its hash.
C15_BelowModulus ==
    /\ codec.op = "stringToFr" /\ codec.out.ok => codec.out.value[2] < MODULUS
    /\ ListOp /\ codec.out.ok
           => \A i \in 1..Len(codec.input) : stringToFr(codec.input[i]).fr[2] < MODULUS

\* Byte i, counted from 1 at the big end, of a value SIZE_IN_BYTES wide.
ByteAt(n, i) == (n \div Pow256(SIZE_IN_BYTES - i)) % 256

\* A text without the 0x prefix; one made of decimal digits only.
Unprefixed(t) == ~(Len(t) >= 2 /\ t[1] = "0" /\ t[2] = "x")

DigitText(t) == /\ Len(t) >= 1
                /\ \A i \in 1..Len(t) : IsHexDigit(t[i]) /\ HexVal(t[i]) < 10

\* The digits written as 0x-prefixed hex of even length.
HexForm(t) == IF Len(t) % 2 = 1 THEN <<"0", "x", "0">> \o t ELSE <<"0", "x">> \o t

HexFormOfDigits(l) == [i \in 1..Len(l) |-> IF DigitText(l[i]) THEN HexForm(l[i]) ELSE l[i]]

\* C16: a text without the 0x prefix always parses, to the value whose first
\* min(len, SIZE_IN_BYTES) bytes are its UTF-8 bytes and whose other bytes
\* are zero; a digit string parses to another outcome than its hex form, and
\* a hash over a list with a digit string differs from the hash over the
\* list with the hex form in its place.
C16_TextIsUtf8 ==
    /\ codec.op = "stringToFr" /\ Unprefixed(codec.input[1])
           => LET t == codec.input[1]
              IN  /\ codec.out.ok
                  /\ \A i \in 1..SIZE_IN_BYTES :
                        ByteAt(codec.out.value[2], i)
                            = IF i <= Len(t) THEN CharCode(t[i]) ELSE 0
                  /\ DigitText(t) => parseField(HexForm(t)) # codec.out
    /\ codec.op = "poseidon2" /\ codec.out.ok
           /\ (\E i \in 1..Len(codec.input) : DigitText(codec.input[i]))
           => poseidon2(HexFormOfDigits(codec.input)) # codec.out

\* poseidon2 hashed a list that holds the text "4".
C16_Witness == /\ codec.op = "poseidon2"
               /\ codec.out.ok
               /\ \E i \in 1..Len(codec.input) : codec.input[i] = <<"4">>

\* The digits of an address text, its prefix dropped if it has one.
DigitsOf(t) == IF Unprefixed(t) THEN t ELSE SubSeq(t, 3, Len(t))

\* An address text of at most 2 * SIZE_IN_BYTES hex digits.
ShortHex(t) == /\ Len(DigitsOf(t)) <= 2 * SIZE_IN_BYTES
               /\ \A i \in 1..Len(DigitsOf(t)) : IsHexDigit(DigitsOf(t)[i])

Zeros(n) == [i \in 1..n |-> "0"]

\* The texts that differ from digits ds in the prefix or in one leading zero.
SameAddress(ds) ==
    LET more == IF Len(ds) < 2 * SIZE_IN_BYTES THEN {<<"0">> \o ds} ELSE {}
        less == IF Len(ds) >= 1 /\ ds[1] = "0" THEN {SubSeq(ds, 2, Len(ds))} ELSE {}
    IN  UNION {{d, <<"0", "x">> \o d} : d \in {ds} \cup more \cup less}

\* C17: for an input of at most 2 * SIZE_IN_BYTES hex digits, with or without
\* the prefix, normalizeAddress returns 0x and the digits left-padded with
\* zeros to exactly that width; inputs that differ only in leading zeros or
\* in the prefix normalize to the same text, and normalizing the output again
\* returns it unchanged.
C17_NormalizeAddress ==
    codec.op = "normalizeAddress" /\ ShortHex(codec.input[1])
        => LET ds == DigitsOf(codec.input[1])
               out == codec.out.value
           IN  /\ out = <<"0", "x">> \o Zeros(2 * SIZE_IN_BYTES - Len(ds)) \o ds
               /\ Len(out) = 2 + 2 * SIZE_IN_BYTES
               /\ \A u \in SameAddress(ds) : normalizeAddress(u) = out
               /\ normalizeAddress(out) = out

\* normalizeAddress was called on a prefixed text shorter than the full
\* width, with a leading zero.
C17_Witness == /\ codec.op = "normalizeAddress"
               /\ ShortHex(codec.input[1])
               /\ ~Unprefixed(codec.input[1])
               /\ Len(codec.input[1]) = 4
               /\ codec.input[1][3] = "0"
               /\ Len(codec.out.value) = 2 + 2 * SIZE_IN_BYTES

----------------------------------------------------------------------------
(* Claims C18-C19: computeNoteHash compared across inputs *)

\* The invocation carried through every await to its settlement.
RECURSIVE Finish(_)
Finish(c) == IF c.pc = "await_commitment" THEN Finish(Run(AfterCommitment(c)))
             ELSE IF c.pc = "await_raw" THEN Finish(Run(AfterRaw(c)))
             ELSE IF c.pc = "await_siloed" THEN Finish(Run(AfterSiloed(c)))
             ELSE IF c.pc = "await_unique" THEN Finish(Run(AfterUnique(c)))
             ELSE c

\* The settlement of computeNoteHash(p).
computeNoteHashOf(p) == Finish(Run(Enter(p))).outcome

Returned(o) == o.kind \in {"bare", "object"}

RawOf(o) == IF o.kind = "bare" THEN o.value ELSE o.obj.rawNoteHash

\* The item texts a changed input is drawn from: those of the model's inputs
\* and "0x0001", another spelling of the element "0x01".
AltItemTexts == ItemTexts \cup {<<"0", "x", "0", "0", "0", "1">>}

\* The parameters with one note item, or the storage slot, replaced.
ItemChanged == {[call.p EXCEPT !.noteItems.items[i] = t] :
                   i \in 1..Len(Items), t \in AltItemTexts}

SlotChanged == {[call.p EXCEPT !.storageSlot = s] : s \in SlotInputs}

ContractChanged == {[call.p EXCEPT !.contractAddress = a] : a \in ContractInputs}

NonceChanged == {[call.p EXCEPT !.noteNonce = n] : n \in NonceInputs}

\* The field elements the raw stage is computed from.
RawStageInputs(p) == <<MapStringToFr(p.noteItems.items), stringToFr(p.storageSlot[1]).fr>>

ContractOf(p) == AddressToField(normalizeAddress(p.contractAddress[1])).fr

C19_PartialDiffers ==
    Succeeded /\ StartsFromItems /\ Len(Items) >= 2
        => LET other == computeNoteHashOf([call.p EXCEPT !.partial = ~call.p.partial])
           IN  Returned(other) /\ RawOf(other) # ReportedRaw

\* A partial-mode call from two items returned.
C19_Witness == /\ Succeeded
               /\ StartsFromItems
               /\ call.p.partial
               /\ Len(Items) = 2

----------------------------------------------------------------------------
(* The SDK primitives of private-log decryption (src/cli/utils/log.ts)     *)
(*                                                                         *)
(* Curve arithmetic, key derivation and AES are the SDK's.  The model      *)
(* keeps their interface (what each takes, returns and throws) and puts a  *)
(* small deterministic stand-in in place of each computation: affine       *)
(* arithmetic modulo the field for the curve and the keys, and a byte-wise *)
(* additive cipher with CBC chaining and PKCS#7 padding for AES-128.       *)

\* GeneratorIndex.SYMMETRIC_KEY and SYMMETRIC_KEY_2 of @aztec/constants.
SYMMETRIC_KEY == 54

SYMMETRIC_KEY_2 == 55

\* The AES block, and the header ciphertext of one block (log.ts:99).
AES_BLOCK == 16

HEADER_CIPHERTEXT_SIZE_IN_BYTES == 16

EPH_PK_X_SIZE_IN_FIELDS == 1

EPH_PK_SIGN_BYTE_SIZE_IN_BYTES == 1

\* PRIVATE_LOG_CIPHERTEXT_LEN of @aztec/constants, scaled with the field: as
\* many fields of SIZE_IN_BYTES bytes as leave a body region of at least two
\* AES blocks after the sign byte and the header.
PRIVATE_LOG_CIPHERTEXT_LEN == 50

\* Key and iv are the low half of a hash output (16 of 32 bytes).
KEY_SIZE == SIZE_IN_BYTES \div 2

\* n as k bytes, big-endian.
ToBytes(n, k) == [i \in 1..k |-> (n \div Pow256(k - i)) % 256]

\* The number a field element holds; for the output of Poseidon2, a number
\* standing in for the digest, mixed from the numbers of the inputs.
RECURSIVE FrValue(_), MixValues(_, _)
FrValue(f) == IF f[1] = "fr" THEN f[2] ELSE MixValues(f[2], Len(f[2]))

MixValues(input, k) == IF k = 0 THEN 7
                       ELSE (MixValues(input, k - 1) * 31 + FrValue(input[k]) + k) % MODULUS

\* Fr.toBuffer(): SIZE_IN_BYTES bytes, big-endian.
FrToBuffer(f) == ToBytes(FrValue(f), SIZE_IN_BYTES)

\* Fr.fromBuffer(buffer) of SIZE_IN_BYTES bytes; a shorter buffer cannot be
\* read.
FrFromBuffer(bytes) == IF Len(bytes) < SIZE_IN_BYTES THEN Throws("BufferTooShort")
                       ELSE Returns(Fr(BytesValue(bytes)))

\* Point.fromXAndSign(x, sign): the point of that x, or NotOnCurveError when
\* the curve has none.
OnCurve(x) == FrValue(x) % 4 # 3

PointFromXAndSign(x, sign) ==
    IF ~OnCurve(x) THEN Throws("NotOnCurve")
    ELSE Returns([x |-> Fr(FrValue(x)),
                  y |-> Fr((FrValue(x) * FrValue(x) + (IF sign THEN 1 ELSE 2)) % MODULUS)])

\* CompleteAddress.fromString(address): the hex of the serialized address,
\* with or without 0x; a buffer of another length cannot be read.
CompleteAddressFromString(address) ==
    LET hex == IF startsWith0x(address) THEN slice2(address) ELSE address
    IN  IF Len(BufferFromHex(hex)) # SIZE_IN_BYTES \/ Len(hex) # 2 * SIZE_IN_BYTES
        THEN Throws("InvalidCompleteAddress")
        ELSE Returns(Fr(BytesValue(BufferFromHex(hex))))

\* completeAddress.getPreaddress().
getPreaddress(completeAddress) == Fr((FrValue(completeAddress) * 5 + 1) % MODULUS)

deriveMasterIncomingViewingSecretKey(secretKey) == Fr((FrValue(secretKey) * 3 + 2) % MODULUS)

\* computeAddressSecret(preaddress, ivsk): their sum.
computeAddressSecret(preaddress, ivsk) == Fr((FrValue(preaddress) + FrValue(ivsk)) % MODULUS)

\* deriveEcdhSharedSecret(secret, publicKey): the point secret * publicKey.
deriveEcdhSharedSecret(secret, publicKey) ==
    [x |-> Fr((FrValue(secret) * FrValue(publicKey.x) + 1) % MODULUS),
     y |-> Fr((FrValue(secret) * FrValue(publicKey.y) + 2) % MODULUS)]

\* The byte of a repeating key or iv that meets position j.
Cyclic(k, j) == k[((j - 1) % Len(k)) + 1]

\* The block cipher in CBC mode, without the padding: byte j of the
\* plaintext from byte j of the ciphertext, the key, and the byte one block
\* before (the iv for the first block).
CbcPlainByte(data, iv, key, j) ==
    LET chained == IF j <= AES_BLOCK THEN Cyclic(iv, j) ELSE data[j - AES_BLOCK]
    IN  (data[j] + 512 - Cyclic(key, j) - chained) % 256

\* The PKCS#7 padding of a decrypted buffer is well formed.
PaddingOk(plain) ==
    LET n == plain[Len(plain)]
    IN  /\ n >= 1 /\ n <= AES_BLOCK
        /\ \A j \in (Len(plain) - n + 1)..Len(plain) : plain[j] = n

\* Aes128.decryptBufferCBC(data, iv, key): throws on a length that is not a
\* positive number of blocks and on bad padding; returns the plaintext
\* without its padding.
decryptBufferCBC(data, iv, key) ==
    LET plain == [j \in 1..Len(data) |-> CbcPlainByte(data, iv, key, j)]
    IN  IF Len(data) = 0 \/ Len(data) % AES_BLOCK # 0 THEN Throws("WrongBlockLength")
        ELSE IF ~PaddingOk(plain) THEN Throws("BadPadding")
        ELSE Returns(SubSeq(plain, 1, Len(plain) - plain[Len(plain)]))

----------------------------------------------------------------------------
(* LogUtils (src/cli/utils/log.ts) *)

\* Mutant: the whole buffer of each field is kept, its first byte too.
RECURSIVE fieldsToBytes_WholeBuffer(_)
fieldsToBytes_WholeBuffer(fields) ==
    IF fields = <<>> THEN <<>>
    ELSE FrToBuffer(fields[1])
         \o fieldsToBytes_WholeBuffer(SubSeq(fields, 2, Len(fields)))

\* fieldsToBytes: every byte but the first of each field's buffer, in order.
RECURSIVE fieldsToBytes(_)
fieldsToBytes(fields) ==
    IF fields = <<>> THEN <<>>
    ELSE SubSeq(FrToBuffer(fields[1]), 2, SIZE_IN_BYTES)
         \o fieldsToBytes(SubSeq(fields, 2, Len(fields)))

\* bytesToFields: the slices of SIZE_IN_BYTES bytes, the last one shorter
\* when the length is no multiple of it.
Chunk(bytes, i) ==
    SubSeq(bytes, (i - 1) * SIZE_IN_BYTES + 1,
           IF i * SIZE_IN_BYTES <= Len(bytes) THEN i * SIZE_IN_BYTES ELSE Len(bytes))

ChunkCount(bytes) == (Len(bytes) + SIZE_IN_BYTES - 1) \div SIZE_IN_BYTES

\* Mutant: every slice is reduced modulo the field modulus.
bytesToFields_Reduced(bytes) ==
    IF \E i \in 1..ChunkCount(bytes) : ~FrFromBuffer(Chunk(bytes, i)).ok
    THEN Throws("BufferTooShort")
    ELSE Returns([i \in 1..ChunkCount(bytes) |->
                     Fr(FrValue(FrFromBuffer(Chunk(bytes, i)).value) % MODULUS)])

bytesToFields(bytes) ==
    IF \E i \in 1..ChunkCount(bytes) : ~FrFromBuffer(Chunk(bytes, i)).ok
    THEN Throws("BufferTooShort")
    ELSE Returns([i \in 1..ChunkCount(bytes) |-> FrFromBuffer(Chunk(bytes, i)).value])

\* Mutant: the discriminator of header and body is left out.
Separator_NoDiscriminator(index, generator) == generator

\* deriveAesSymmetricKeyAndIv: `index << 8` plus the generator index.
Separator(index, generator) == index * 256 + generator

\* The four hash calls of the two derivations, in the order they are made:
\* header key, header iv, body key, body iv.
KdfSeparators == <<Separator(1, SYMMETRIC_KEY), Separator(1, SYMMETRIC_KEY_2),
                   Separator(0, SYMMETRIC_KEY), Separator(0, SYMMETRIC_KEY_2)>>

KdfHash(sharedSecret, separator) ==
    poseidon2HashWithSeparator(<<sharedSecret.x, sharedSecret.y>>, separator)

\* Lines 61-67: key[i] = randBytes[31 - i], the low bytes in reverse.
KeyBytes(rand) == [i \in 1..KEY_SIZE |-> FrToBuffer(rand)[SIZE_IN_BYTES + 1 - i]]

LogThrow(c, e) == [c EXCEPT !.pc = "done", !.pending = None,
                            !.outcome = [NoLogOutcome EXCEPT !.kind = "error", !.error = e]]

\* A call of the SDK whose promise is awaited at pc next.
Await(c, name, settlement, next) ==
    [c EXCEPT !.events = Append(@, name), !.pending = Some(settlement), !.pc = next]

\* Lines 80-91: the checks of the parameters; "" when all pass.
ValidationError(p) ==
    IF p.ciphertext.kind # "array" THEN "CiphertextNotArray"
    ELSE IF Len(p.ciphertext.items) # PRIVATE_LOG_CIPHERTEXT_LEN THEN "LengthMismatch"
    ELSE IF ~Truthy(p.recipientAddress) THEN "MissingRecipientAddress"
    ELSE IF ~Truthy(p.recipientSecretKey) THEN "MissingRecipientSecretKey"
    ELSE ""

\* Mutant: the fields are parsed before the parameters are checked.
LogStart_ParseFirst(c) ==
    LET items == c.p.ciphertext.items
        ciphertext == MapStringToFr(items)
        ephPkX == ciphertext[1]
        bytes == fieldsToBytes(SubSeq(ciphertext, EPH_PK_X_SIZE_IN_FIELDS + 1, Len(ciphertext)))
        ephPkSign == bytes[1] # 0
        c1 == [c EXCEPT !.events = Append(@, "stringToFr")]
    IN  IF c.p.ciphertext.kind # "array" THEN LogThrow(c, "CiphertextNotArray")
        ELSE IF FirstBad(items) # 0 THEN LogThrow(c1, stringToFr(items[FirstBad(items)]).err)
        ELSE IF ValidationError(c.p) # "" THEN LogThrow(c1, ValidationError(c.p))
        ELSE Await([c1 EXCEPT !.ciphertextBytes = bytes],
                   "Point.fromXAndSign", PointFromXAndSign(ephPkX, ephPkSign), "await_point")

\* Lines 75-116: validate, parse the fields, unpack the bytes and ask for
\* the ephemeral public key.
LogStart(c) ==
    LET items == c.p.ciphertext.items
        ciphertext == MapStringToFr(items)
        ephPkX == ciphertext[1]
        bytes == fieldsToBytes(SubSeq(ciphertext, EPH_PK_X_SIZE_IN_FIELDS + 1, Len(ciphertext)))
        ephPkSign == bytes[1] # 0
        c1 == [c EXCEPT !.events = Append(@, "stringToFr")]
    IN  IF ValidationError(c.p) # "" THEN LogThrow(c, ValidationError(c.p))
        ELSE IF FirstBad(items) # 0 THEN LogThrow(c1, stringToFr(items[FirstBad(items)]).err)
        ELSE Await([c1 EXCEPT !.ciphertextBytes = bytes],
                   "Point.fromXAndSign", PointFromXAndSign(ephPkX, ephPkSign), "await_point")

\* Line 116 resolved; line 121.
AfterPoint(c) ==
    IF ~c.pending[1].ok THEN LogThrow(c, c.pending[1].err)
    ELSE Await([c EXCEPT !.ephPk = Some(c.pending[1].value)],
               "CompleteAddress.fromString",
               CompleteAddressFromString(c.p.recipientAddress[1]), "await_address")

\* Line 121 resolved; line 122.
AfterAddress(c) ==
    IF ~c.pending[1].ok THEN LogThrow(c, c.pending[1].err)
    ELSE Await([c EXCEPT !.completeAddress = Some(c.pending[1].value)],
               "getPreaddress", Returns(getPreaddress(c.pending[1].value)),
               "await_preaddress")

\* Line 122 resolved; lines 123-124.
AfterPreaddress(c) ==
    LET key == stringToFr(c.p.recipientSecretKey[1])
        c1 == [c EXCEPT !.events = Append(@, "stringToFr")]
        c2 == [c1 EXCEPT !.events = Append(@, "deriveMasterIncomingViewingSecretKey")]
    IN  IF ~key.ok THEN LogThrow(c1, key.err)
        ELSE Await(c2, "computeAddressSecret",
                   Returns(computeAddressSecret(c.pending[1].value,
                                                deriveMasterIncomingViewingSecretKey(key.fr))),
                   "await_secret")

\* Line 124 resolved; line 125.
AfterSecret(c) ==
    Await([c EXCEPT !.addressSecret = Some(c.pending[1].value)],
          "deriveEcdhSharedSecret",
          Returns(deriveEcdhSharedSecret(c.pending[1].value, c.ephPk[1])), "await_shared")

\* Line 125 resolved; line 128 up to the first hash of the header's key.
AfterShared(c) ==
    Await([c EXCEPT !.sharedSecret = Some(c.pending[1].value)],
          "poseidon2HashWithSeparator",
          Returns(KdfHash(c.pending[1].value, KdfSeparators[1])), "await_rand")

\* Mutant: the header is read from byte 0, the sign flag taken for its
\* first byte.
HeaderCiphertext_FromSign(bytes) == SubSeq(bytes, 1, HEADER_CIPHERTEXT_SIZE_IN_BYTES)

\* The bytes 1..16 of the stream, and those from 17 on (lines 132-145).
HeaderCiphertext(bytes) ==
    SubSeq(bytes, EPH_PK_SIGN_BYTE_SIZE_IN_BYTES + 1,
           EPH_PK_SIGN_BYTE_SIZE_IN_BYTES + HEADER_CIPHERTEXT_SIZE_IN_BYTES)

CiphertextWithPadding(bytes) ==
    SubSeq(bytes, EPH_PK_SIGN_BYTE_SIZE_IN_BYTES + HEADER_CIPHERTEXT_SIZE_IN_BYTES + 1,
           Len(bytes))

\* Lines 55-56 resolved one by one.  The first hash of a derivation is
\* followed by the request of its second (line 56); the second by lines
\* 57-68, after which deriveAesSymmetricKeyAndIv returns {key, iv} and its
\* caller, suspended at line 128 or 129, is resumed in a later turn.
AfterRand(c) ==
    LET rands == Append(c.rands, c.pending[1].value)
        c1 == [c EXCEPT !.rands = rands]
    IN  IF Len(rands) % 2 = 1
        THEN Await(c1, "poseidon2HashWithSeparator",
                   Returns(KdfHash(c.sharedSecret[1], KdfSeparators[Len(rands) + 1])),
                   "await_rand")
        ELSE [c1 EXCEPT !.pending = Some(Returns([key |-> KeyBytes(rands[Len(rands) - 1]),
                                                  iv |-> KeyBytes(rands[Len(rands)])])),
                        !.pc = "await_keys"]

\* Line 128 resolved: line 129 up to the first hash of the body's key.
\* Line 129 resolved: lines 132-138, the header handed to the cipher.
AfterKeys(c) ==
    IF Len(c.rands) < 4
    THEN Await(c, "poseidon2HashWithSeparator",
               Returns(KdfHash(c.sharedSecret[1], KdfSeparators[Len(c.rands) + 1])),
               "await_rand")
    ELSE Await(c, "decryptBufferCBC",
               decryptBufferCBC(HeaderCiphertext(c.ciphertextBytes),
                                KeyBytes(c.rands[2]), KeyBytes(c.rands[1])),
               "await_header")

\* Line 141: (headerPlaintext[0] << 8) | headerPlaintext[1], a missing byte
\* counting as 0.
CiphertextLength(headerPlaintext) ==
    (IF Len(headerPlaintext) >= 1 THEN headerPlaintext[1] * 256 ELSE 0)
    + (IF Len(headerPlaintext) >= 2 THEN headerPlaintext[2] ELSE 0)

\* Mutant: a length beyond the body region leaves nothing to decrypt.
ActualCiphertext_NoClamp(bytes, ciphertextLength) ==
    IF ciphertextLength > Len(CiphertextWithPadding(bytes)) THEN <<>>
    ELSE SubSeq(CiphertextWithPadding(bytes), 1, ciphertextLength)

\* Mutant: the whole body region is decrypted, padding included.
ActualCiphertext_WithPadding(bytes, ciphertextLength) == CiphertextWithPadding(bytes)

\* Line 146: slice(0, ciphertextLength).
ActualCiphertext(bytes, ciphertextLength) ==
    SubSeq(CiphertextWithPadding(bytes), 1,
           IF ciphertextLength <= Len(CiphertextWithPadding(bytes)) THEN ciphertextLength
           ELSE Len(CiphertextWithPadding(bytes)))

\* Line 138 resolved; lines 141-148.
AfterHeader(c) ==
    IF ~c.pending[1].ok THEN LogThrow(c, c.pending[1].err)
    ELSE LET length == CiphertextLength(c.pending[1].value)
         IN  Await([c EXCEPT !.ciphertextLength = Some(length)],
                   "decryptBufferCBC",
                   decryptBufferCBC(ActualCiphertext(c.ciphertextBytes, length),
                                    KeyBytes(c.rands[4]), KeyBytes(c.rands[3])),
                   "await_body")

\* Line 148 resolved; lines 151-154.
AfterBody(c) ==
    IF ~c.pending[1].ok THEN LogThrow(c, c.pending[1].err)
    ELSE LET fields == bytesToFields(c.pending[1].value)
         IN  IF ~fields.ok THEN LogThrow(c, fields.err)
             ELSE [c EXCEPT !.pc = "done", !.pending = None,
                            !.outcome = [NoLogOutcome EXCEPT
                                !.kind = "array",
                                !.value = [i \in 1..Len(fields.value) |->
                                              FrToString(fields.value[i])]]]

\* The synchronous run of decryptRawPrivateLog up to its first await.
decryptRawPrivateLog(p) == LogStart([LogIdle EXCEPT !.p = p, !.pc = "start"])

----------------------------------------------------------------------------
(* Inputs of decryptRawPrivateLog: messages as a sender builds them *)

\* The bytes of the stream: (N - 1) fields of SIZE_IN_BYTES - 1 bytes.
StreamLength == (PRIVATE_LOG_CIPHERTEXT_LEN - 1) * (SIZE_IN_BYTES - 1)

BodyCapacity == StreamLength - EPH_PK_SIGN_BYTE_SIZE_IN_BYTES - HEADER_CIPHERTEXT_SIZE_IN_BYTES

\* PKCS#7 padding and the cipher in the sender's direction.
Pkcs7Pad(plain) == plain \o [i \in 1..(AES_BLOCK - (Len(plain) % AES_BLOCK)) |->
                               AES_BLOCK - (Len(plain) % AES_BLOCK)]

RECURSIVE CbcCipherByte(_, _, _, _)
CbcCipherByte(plain, iv, key, j) ==
    (plain[j] + Cyclic(key, j)
     + (IF j <= AES_BLOCK THEN Cyclic(iv, j) ELSE CbcCipherByte(plain, iv, key, j - AES_BLOCK)))
    % 256

encryptBufferCBC(plain, iv, key) ==
    [j \in 1..Len(Pkcs7Pad(plain)) |-> CbcCipherByte(Pkcs7Pad(plain), iv, key, j)]

\* The text of a field: 0x and its bytes in hex.
RECURSIVE HexOfBytes(_)
HexOfBytes(bytes) == IF bytes = <<>> THEN <<>>
                     ELSE HexOf(bytes[1], 2) \o HexOfBytes(SubSeq(bytes, 2, Len(bytes)))

FieldText(bytes) == <<"0", "x">> \o HexOfBytes(bytes)

\* The stream packed into fields, each under the top byte given for it.
PackStream(stream, top) ==
    [i \in 1..(PRIVATE_LOG_CIPHERTEXT_LEN - 1) |->
        FieldText(<<top[i]>> \o SubSeq(stream, (i - 1) * (SIZE_IN_BYTES - 1) + 1,
                                       i * (SIZE_IN_BYTES - 1)))]

NoTop == [i \in 1..(PRIVATE_LOG_CIPHERTEXT_LEN - 1) |-> 0]

\* The recipient: complete address 0x0a..0a and secret key 7.
RecipientAddress == FieldText([i \in 1..SIZE_IN_BYTES |-> 10])

RecipientSecretKey == FieldText(ToBytes(7, SIZE_IN_BYTES))

\* The x of the ephemeral key, on the curve, and an x that is not.
EphX == CHOOSE x \in 1..8 : OnCurve(Fr(x))

OffCurveX == CHOOSE x \in 1..8 : ~OnCurve(Fr(x))

\* The shared secret and the keys the sender derives for the recipient.
SenderSecret ==
    deriveEcdhSharedSecret(
        computeAddressSecret(getPreaddress(CompleteAddressFromString(RecipientAddress).value),
                             deriveMasterIncomingViewingSecretKey(stringToFr(RecipientSecretKey).fr)),
        PointFromXAndSign(Fr(EphX), TRUE).value)

SenderKey(i) == KeyBytes(KdfHash(SenderSecret, KdfSeparators[i]))

\* The stream of a message: sign byte, header declaring the length, the
\* body ciphertext, and filler up to the capacity.
Stream(plain, declared, filler) ==
    LET body == encryptBufferCBC(plain, SenderKey(4), SenderKey(3))
        header == encryptBufferCBC(<<declared \div 256, declared % 256>>,
                                   SenderKey(2), SenderKey(1))
    IN  <<1>> \o header \o body \o [i \in 1..(BodyCapacity - Len(body)) |-> filler]

\* The plaintext of one field, 0x0102.. , and one of a whole number of
\* fields that fills the body region with ciphertext.
OneField == [i \in 1..SIZE_IN_BYTES |-> i]

LongPlain == [i \in 1..(((BodyCapacity - 1) \div SIZE_IN_BYTES) * SIZE_IN_BYTES) |-> i]

Message(x, stream, top) == <<FieldText(ToBytes(x, SIZE_IN_BYTES))>> \o PackStream(stream, top)

\* The message as sent.
Sent == Message(EphX, Stream(OneField, AES_BLOCK, 0), NoTop)

\* A message whose plaintext is one field of bytes 0xff.
SentHigh == Message(EphX, Stream([i \in 1..SIZE_IN_BYTES |-> 255], AES_BLOCK, 0), NoTop)

\* The same with other filler after the body ciphertext.
OtherFiller == Message(EphX, Stream(OneField, AES_BLOCK, 9), NoTop)

\* The same with a nonzero top byte in the second stream field.
OtherTop == Message(EphX, Stream(OneField, AES_BLOCK, 0), [NoTop EXCEPT ![2] = 1])

\* The same under an x that is not on the curve.
OffCurve == Message(OffCurveX, Stream(OneField, AES_BLOCK, 0), NoTop)

\* The same with the last byte of the body ciphertext changed.
BadBody == [Sent EXCEPT ![1 + (1 + HEADER_CIPHERTEXT_SIZE_IN_BYTES + AES_BLOCK + SIZE_IN_BYTES - 2)
                             \div (SIZE_IN_BYTES - 1)] = FieldText(ToBytes(255, SIZE_IN_BYTES))]

\* The header declares one byte more than the body ciphertext has.
BadLength == Message(EphX, Stream(OneField, AES_BLOCK + 1, 0), NoTop)

\* The header declares more than the body region holds.
Overlong == Message(EphX, Stream(LongPlain, BodyCapacity + 256, 0), NoTop)

\* One element has an odd number of hex digits.
OddElement == [Sent EXCEPT ![3] = <<"0", "x", "1">>]

CiphertextInputs ==
    {NoItems, [kind |-> "string", items |-> <<>>]}
    \cup {[kind |-> "array", items |-> m] :
             m \in {Sent, SentHigh, OtherFiller, OtherTop, OffCurve, BadBody, BadLength,
                    Overlong, OddElement, <<>>, SubSeq(Sent, 1, PRIVATE_LOG_CIPHERTEXT_LEN - 1),
                    Append(Sent, <<"0", "x", "0", "0">>)}}

\* The recipient's address, another valid one, "0x1" and the empty string.
AddressInputs == Opt({RecipientAddress, FieldText([i \in 1..SIZE_IN_BYTES |-> 11]),
                      <<"0", "x", "1">>, <<>>})

\* The recipient's key, another one, "0x1" and the empty string.
SecretKeyInputs == Opt({RecipientSecretKey, FieldText(ToBytes(8, SIZE_IN_BYTES)),
                        <<"0", "x", "1">>, <<>>})

LogParamsInputs == [ciphertext : CiphertextInputs, recipientAddress : AddressInputs,
                    recipientSecretKey : SecretKeyInputs]

----------------------------------------------------------------------------
(* The state machine of decryptRawPrivateLog: one action per await *)

InvokeDecrypt == /\ log.pc = "idle"
                 /\ \E p \in LogParamsInputs : log' = decryptRawPrivateLog(p)
                 /\ UNCHANGED otherThanLog

ResolvePoint == /\ log.pc = "await_point"
                /\ log' = AfterPoint(log)
                /\ UNCHANGED otherThanLog

ResolveAddress == /\ log.pc = "await_address"
                  /\ log' = AfterAddress(log)
                  /\ UNCHANGED otherThanLog

ResolvePreaddress == /\ log.pc = "await_preaddress"
                     /\ log' = AfterPreaddress(log)
                     /\ UNCHANGED otherThanLog

ResolveSecret == /\ log.pc = "await_secret"
                 /\ log' = AfterSecret(log)
                 /\ UNCHANGED otherThanLog

ResolveShared == /\ log.pc = "await_shared"
                 /\ log' = AfterShared(log)
                 /\ UNCHANGED otherThanLog

ResolveRand == /\ log.pc = "await_rand"
               /\ log' = AfterRand(log)
               /\ UNCHANGED otherThanLog

ResolveKeys == /\ log.pc = "await_keys"
               /\ log' = AfterKeys(log)
               /\ UNCHANGED otherThanLog

ResolveHeader == /\ log.pc = "await_header"
                 /\ log' = AfterHeader(log)
                 /\ UNCHANGED otherThanLog

ResolveBody == /\ log.pc = "await_body"
               /\ log' = AfterBody(log)
               /\ UNCHANGED otherThanLog

\* The caller takes the settled promise.
SettleDecrypt == /\ log.pc = "done"
                 /\ log' = LogIdle
                 /\ UNCHANGED otherThanLog

NextLog == \/ InvokeDecrypt
           \/ ResolvePoint
           \/ ResolveAddress
           \/ ResolvePreaddress
           \/ ResolveSecret
           \/ ResolveShared
           \/ ResolveRand
           \/ ResolveKeys
           \/ ResolveHeader
           \/ ResolveBody
           \/ SettleDecrypt

SpecLog == Init /\ [][NextLog]_vars

LogDone == log.pc = "done"

LogFailed(e) == LogDone /\ log.outcome.kind = "error" /\ log.outcome.error = e

\* The two 'is required' errors of the spec's MissingParameter.
MissingParameter == {"MissingRecipientAddress", "MissingRecipientSecretKey"}

\* The ciphertext given is an array, and of the fixed length.
IsArray == log.p.ciphertext.kind = "array"

RightLength == Len(log.p.ciphertext.items) = PRIVATE_LOG_CIPHERTEXT_LEN

----------------------------------------------------------------------------
(* Claims C11-C12: decryptRawPrivateLog *)

\* C11: validation comes before everything else.  A ciphertext array of
\* another length than PRIVATE_LOG_CIPHERTEXT_LEN fails with LengthMismatch
\* and, the length being right, an absent recipient address or secret key
\* fails with MissingParameter; no field is parsed and no SDK call is made
\* in an invocation whose parameters do not pass all the checks.
C11_ValidationFirst ==
    /\ LogDone /\ IsArray /\ ~RightLength
           => LogFailed("LengthMismatch")
    /\ LogDone /\ IsArray /\ RightLength
           /\ (~Truthy(log.p.recipientAddress) \/ ~Truthy(log.p.recipientSecretKey))
           => log.outcome.kind = "error" /\ log.outcome.error \in MissingParameter
    /\ log.events # <<>>
           => /\ IsArray /\ RightLength
              /\ Truthy(log.p.recipientAddress) /\ Truthy(log.p.recipientSecretKey)

\* An array one element short, with address and key given, failed with
\* LengthMismatch.
C11_Witness == /\ LogFailed("LengthMismatch")
               /\ Len(log.p.ciphertext.items) = PRIVATE_LOG_CIPHERTEXT_LEN - 1
               /\ Truthy(log.p.recipientAddress)
               /\ Truthy(log.p.recipientSecretKey)

\* An SDK call of the shared-secret derivation or of the decryption was made.
CryptoStarted == \E i \in 1..Len(log.events) : log.events[i] # "stringToFr"

\* C12: every failure after the cryptographic steps have begun (point not on
\* the curve, invalid recipient key material, bad block length or padding)
\* ends in the one error DecryptionFailed.
C12_OpaqueFailure ==
    LogDone /\ log.outcome.kind = "error" /\ CryptoStarted
        => log.outcome.error = "DecryptionFailed"

----------------------------------------------------------------------------
(* Repeated invocations: the caller may remember a settled invocation, and *)
(* the memory the locals of computeNoteHash occupied keeps its content     *)
(* until the next invocation declares them anew.                           *)

\* Items "0x01", "4" under slot "0x07", in either mode, alone or with a given
\* raw hash "0x0b" or siloed hash "0x0a", with and without a contract address
\* and a nonce.
RetryParams ==
    [rawNoteHash : {None, Some(<<"0", "x", "0", "b">>)}, siloedNoteHash : {None, Some(<<"0", "x", "0", "a">>)},
     noteItems : {[kind |-> "array", items |-> <<<<"0", "x", "0", "1">>, <<"4">>>>]},
     storageSlot : {Some(<<"0", "x", "0", "7">>)}, partial : BOOLEAN,
     contractAddress : {None, Some(<<"0", "x", "0", "1">>)},
     noteNonce : {None, Some(<<"0", "x", "0", "5">>)}]

\* The message as sent and under an x off the curve, for the recipient's key
\* and for another.
RetryLogParams ==
    [ciphertext : {[kind |-> "array", items |-> Sent], [kind |-> "array", items |-> OffCurve]},
     recipientAddress : {Some(RecipientAddress)},
     recipientSecretKey : {Some(RecipientSecretKey),
                           Some(FieldText(ToBytes(8, SIZE_IN_BYTES)))}]

Settled(p, outcome) == [p |-> p, outcome |-> outcome]

Reinvoke == /\ call.pc = "idle" /\ log.pc = "idle"
            /\ \E p \in RetryParams : call' = Run(Enter(p))
            /\ UNCHANGED otherThanCall

\* The caller takes the settled promise and remembers it, or does not.
Remember == /\ call.pc = "done"
            /\ prev' = [prev EXCEPT !.note = Some(Settled(call.p, call.outcome))]
            /\ call' = [call EXCEPT !.pc = "idle"]
            /\ UNCHANGED <<codec, log, tasks, cli>>

Return == /\ call.pc = "done"
          /\ call' = [call EXCEPT !.pc = "idle"]
          /\ UNCHANGED otherThanCall

ReinvokeDecrypt == /\ call.pc = "idle" /\ log.pc = "idle"
                   /\ \E p \in RetryLogParams : log' = decryptRawPrivateLog(p)
                   /\ UNCHANGED otherThanLog

RememberDecrypt == /\ log.pc = "done"
                   /\ prev' = [prev EXCEPT !.log = Some(Settled(log.p, log.outcome))]
                   /\ log' = LogIdle
                   /\ UNCHANGED <<call, codec, tasks, cli>>

NextRetry == \/ Reinvoke
             \/ ResolveCommitment
             \/ ResolveRaw
             \/ ResolveSiloed
             \/ ResolveUnique
             \/ Remember
             \/ Return
             \/ ReinvokeDecrypt
             \/ ResolvePoint
             \/ ResolveAddress
             \/ ResolvePreaddress
             \/ ResolveSecret
             \/ ResolveShared
             \/ ResolveRand
             \/ ResolveKeys
             \/ ResolveHeader
             \/ ResolveBody
             \/ RememberDecrypt
             \/ SettleDecrypt

SpecRetry == Init /\ [][NextRetry]_vars

\* The raw hash of items that parse under a slot that parses, written out
\* from the items, the slot and the mode.
RawOfItems(items, slot, partial) ==
    LET fr == MapStringToFr(items)
        s == stringToFr(slot).fr
    IN  IF partial
        THEN H_NOTE(<<H_NOTE(SubSeq(fr, 1, Len(fr) - 1) \o <<s>>), fr[Len(fr)]>>)
        ELSE H_NOTE(fr \o <<s>>)

\* The outcome of computeNoteHash on parameters whose items and slot parse,
\* as a function of the parameters alone.
NoteOutcomeOf(p) ==
    IF Truthy(p.siloedNoteHash)
    THEN OutcomeFromSiloed(p.siloedNoteHash, p.contractAddress, p.noteNonce)
    ELSE IF Truthy(p.rawNoteHash)
    THEN OutcomeFromRaw(p.rawNoteHash, p.contractAddress, p.noteNonce)
    ELSE OutcomeFromRaw(Some(FrToString(RawOfItems(p.noteItems.items, p.storageSlot[1],
                                                   p.partial))),
                        p.contractAddress, p.noteNonce)

\* The shared secret a recipient of that address and key derives from the
\* sender's ephemeral key.
SecretOf(address, key) ==
    deriveEcdhSharedSecret(
        computeAddressSecret(getPreaddress(CompleteAddressFromString(address).value),
                             deriveMasterIncomingViewingSecretKey(stringToFr(key).fr)),
        PointFromXAndSign(Fr(EphX), TRUE).value)

\* The stream the sender made, which Sent and OffCurve both carry.
SentStream == Stream(OneField, AES_BLOCK, 0)

LogError(e) == [NoLogOutcome EXCEPT !.kind = "error", !.error = e]

\* The outcome of decryptRawPrivateLog on the sender's stream under element
\* 0 and the recipient's address and key given, as a function of the
\* parameters alone: read off the stream as the sender laid it out.
LogOutcomeOf(p) ==
    LET secret == SecretOf(p.recipientAddress[1], p.recipientSecretKey[1])
        header == decryptBufferCBC(SubSeq(SentStream, 2, 17),
                                   KeyBytes(KdfHash(secret, KdfSeparators[2])),
                                   KeyBytes(KdfHash(secret, KdfSeparators[1])))
        length == CiphertextLength(header.value)
        body == decryptBufferCBC(SubSeq(SentStream, 18,
                                        IF length <= BodyCapacity THEN 17 + length
                                        ELSE Len(SentStream)),
                                 KeyBytes(KdfHash(secret, KdfSeparators[4])),
                                 KeyBytes(KdfHash(secret, KdfSeparators[3])))
        fields == bytesToFields(body.value)
    IN  IF ~OnCurve(stringToFr(p.ciphertext.items[1]).fr) THEN LogError("NotOnCurve")
        ELSE IF ~header.ok THEN LogError(header.err)
        ELSE IF ~body.ok THEN LogError(body.err)
        ELSE IF ~fields.ok THEN LogError(fields.err)
        ELSE [NoLogOutcome EXCEPT !.kind = "array",
                                  !.value = [i \in 1..Len(fields.value) |->
                                                FrToString(fields.value[i])]]

\* C20: the outcome of computeNoteHash and of decryptRawPrivateLog is
\* determined by the input.  Whatever was invoked before, and whatever
\* values the earlier invocations left behind, an invocation settles with
\* the value or error that is a function of its parameters alone; so it
\* settles as every earlier invocation on the same input did, and the
\* message as sent decrypts to the sender's plaintext every time.
C20_Deterministic ==
    /\ call.pc = "done" => call.outcome = NoteOutcomeOf(call.p)
    /\ log.pc = "done" => log.outcome = LogOutcomeOf(log.p)
    /\ call.pc = "done" /\ prev.note # None /\ prev.note[1].p = call.p
           => call.outcome = prev.note[1].outcome
    /\ log.pc = "done" /\ prev.log # None /\ prev.log[1].p = log.p
           => log.outcome = prev.log[1].outcome
    /\ log.pc = "done" /\ log.p.ciphertext.items = Sent
        /\ log.p.recipientSecretKey = Some(RecipientSecretKey)
           => log.outcome.kind = "array" /\ log.outcome.value = <<FieldText(OneField)>>

\* computeNoteHash returned a bare raw hash on the input of a remembered
\* invocation, a decryption having been remembered too.
C20_Witness == /\ call.pc = "done"
               /\ prev.note # None /\ prev.note[1].p = call.p
               /\ prev.log # None
               /\ call.outcome.kind = "bare"

----------------------------------------------------------------------------
(* Concurrent invocations: a caller holds up to MaxTasks promises of       *)
(* computeNoteHash and decryptRawPrivateLog at once, and the event loop    *)
(* resumes them one await at a time in any order.                          *)

\* The await of computeNoteHash that is pending resolved, and the body run
\* on to its next await or its end.
Resume(c) == IF c.pc = "await_commitment" THEN Run(AfterCommitment(c))
             ELSE IF c.pc = "await_raw" THEN Run(AfterRaw(c))
             ELSE IF c.pc = "await_siloed" THEN Run(AfterSiloed(c))
             ELSE IF c.pc = "await_unique" THEN Run(AfterUnique(c))
             ELSE c

\* The same for decryptRawPrivateLog.
ResumeDecrypt(c) == IF c.pc = "await_point" THEN AfterPoint(c)
                    ELSE IF c.pc = "await_address" THEN AfterAddress(c)
                    ELSE IF c.pc = "await_preaddress" THEN AfterPreaddress(c)
                    ELSE IF c.pc = "await_secret" THEN AfterSecret(c)
                    ELSE IF c.pc = "await_shared" THEN AfterShared(c)
                    ELSE IF c.pc = "await_rand" THEN AfterRand(c)
                    ELSE IF c.pc = "await_keys" THEN AfterKeys(c)
                    ELSE IF c.pc = "await_header" THEN AfterHeader(c)
                    ELSE IF c.pc = "await_body" THEN AfterBody(c)
                    ELSE c

\* decryptRawPrivateLog carried through every await to its settlement.
RECURSIVE FinishDecrypt(_)
FinishDecrypt(c) == IF c.pc \in {"idle", "done"} THEN c
                    ELSE FinishDecrypt(ResumeDecrypt(c))

\* The settlement of decryptRawPrivateLog(p).
decryptRawPrivateLogOf(p) == FinishDecrypt(decryptRawPrivateLog(p)).outcome

\* Mutant: the locals live outside the functions, one copy for all
\* invocations.
Locals_Shared(t, i) == t[1].c

\* The locals an invocation reads when it resumes: its own, declared inside
\* the function body (note.ts:391-394, log.ts:75-78).
Locals(t, i) == t[i].c

\* Another invocation is in flight beside invocation i.
OthersInFlight(i) ==
    \E j \in 1..MaxTasks : j # i /\ tasks[j].fn # "none" /\ tasks[j].c.pc # "done"

\* Standard and partial mode over "0x01", "4" with a contract address and a
\* nonce, and a given siloed hash with nothing else.
ConcurrentParams ==
    {[rawNoteHash |-> None, siloedNoteHash |-> None,
      noteItems |-> [kind |-> "array", items |-> <<<<"0", "x", "0", "1">>, <<"4">>>>],
      storageSlot |-> Some(<<"0", "x", "0", "7">>), partial |-> b,
      contractAddress |-> Some(<<"0", "x", "0", "1">>),
      noteNonce |-> Some(<<"0", "x", "0", "5">>)] : b \in BOOLEAN}
    \cup {[NoParams EXCEPT !.siloedNoteHash = Some(<<"0", "x", "0", "a">>)]}

\* The message as sent and under an x off the curve, for the recipient.
ConcurrentLogParams ==
    [ciphertext : {[kind |-> "array", items |-> Sent], [kind |-> "array", items |-> OffCurve]},
     recipientAddress : {Some(RecipientAddress)},
     recipientSecretKey : {Some(RecipientSecretKey)}]

SpawnNote ==
    /\ \E i \in 1..MaxTasks : \E p \in ConcurrentParams :
          /\ tasks[i].fn = "none"
          /\ tasks' = [tasks EXCEPT ![i] = [fn |-> "note", arg |-> p, c |-> Run(Enter(p)),
                                            interleaved |-> FALSE]]
    /\ UNCHANGED otherThanTasks

SpawnDecrypt ==
    /\ \E i \in 1..MaxTasks : \E p \in ConcurrentLogParams :
          /\ tasks[i].fn = "none"
          /\ tasks' = [tasks EXCEPT ![i] = [fn |-> "log", arg |-> p,
                                            c |-> decryptRawPrivateLog(p),
                                            interleaved |-> FALSE]]
    /\ UNCHANGED otherThanTasks

ResumeNote ==
    /\ \E i \in 1..MaxTasks :
          /\ tasks[i].fn = "note"
          /\ Locals(tasks, i).pc \in {"await_commitment", "await_raw", "await_siloed",
                                      "await_unique"}
          /\ tasks' = [tasks EXCEPT ![i].c = Resume(Locals(tasks, i)),
                                    ![i].interleaved = @ \/ OthersInFlight(i)]
    /\ UNCHANGED otherThanTasks

ResumeLog ==
    /\ \E i \in 1..MaxTasks :
          /\ tasks[i].fn = "log"
          /\ Locals(tasks, i).pc \in {"await_point", "await_address", "await_preaddress",
                                      "await_secret", "await_shared", "await_rand",
                                      "await_keys", "await_header", "await_body"}
          /\ tasks' = [tasks EXCEPT ![i].c = ResumeDecrypt(Locals(tasks, i)),
                                    ![i].interleaved = @ \/ OthersInFlight(i)]
    /\ UNCHANGED otherThanTasks

\* The caller takes a settled promise.
Collect ==
    /\ \E i \in 1..MaxTasks :
          /\ tasks[i].fn # "none"
          /\ tasks[i].c.pc = "done"
          /\ tasks' = [tasks EXCEPT ![i] = NoTask]
    /\ UNCHANGED otherThanTasks

NextConcurrent == \/ SpawnNote
                  \/ SpawnDecrypt
                  \/ ResumeNote
                  \/ ResumeLog
                  \/ Collect

SpecConcurrent == Init /\ [][NextConcurrent]_vars

\* C21: under every interleaving of the awaits of up to MaxTasks concurrent
\* invocations of computeNoteHash and decryptRawPrivateLog, an invocation
\* that settles settles with the outcome of the same invocation run alone.
C21_NoInterference ==
    \A i \in 1..MaxTasks :
        /\ tasks[i].fn = "note" /\ tasks[i].c.pc = "done"
               => tasks[i].c.outcome = computeNoteHashOf(tasks[i].arg)
        /\ tasks[i].fn = "log" /\ tasks[i].c.pc = "done"
               => tasks[i].c.outcome = decryptRawPrivateLogOf(tasks[i].arg)

\* Two invocations of computeNoteHash on different parameters both returned
\* an object, each having resumed while the other was in flight.
C21_Witness ==
    /\ tasks[1].fn = "note" /\ tasks[2].fn = "note"
    /\ tasks[1].arg # tasks[2].arg
    /\ tasks[1].c.pc = "done" /\ tasks[2].c.pc = "done"
    /\ tasks[1].c.outcome.kind = "object" /\ tasks[2].c.outcome.kind = "object"
    /\ tasks[1].interleaved /\ tasks[2].interleaved

----------------------------------------------------------------------------
(* The CLI (src/cli/cli.ts): the commands `notes compute-hash` and         *)
(* `decrypt-private-log`.  A list option is the text typed and, for a text *)
(* read as JSON or as a file, what JSON.parse or parseJsonOrFile makes of  *)
(* it: an array of texts, another JSON value, or an error thrown.          *)

\* text.split(',').
RECURSIVE Split(_)
Split(text) ==
    IF \A i \in 1..Len(text) : text[i] # "," THEN <<text>>
    ELSE LET i == CHOOSE k \in 1..Len(text) :
                      text[k] = "," /\ \A j \in 1..(k - 1) : text[j] # ","
         IN  <<SubSeq(text, 1, i - 1)>> \o Split(SubSeq(text, i + 1, Len(text)))

\* text.trim(), spaces being the only white space drawn.
RECURSIVE Trim(_)
Trim(text) == IF text = <<>> THEN text
              ELSE IF text[1] = " " THEN Trim(SubSeq(text, 2, Len(text)))
              ELSE IF text[Len(text)] = " " THEN Trim(SubSeq(text, 1, Len(text) - 1))
              ELSE text

NonEmpty(text) == Len(text) > 0

\* split(',').map(trim).filter(nonempty), cli.ts:1508 and 2195.
CommaSeparated(text) ==
    SelectSeq([i \in 1..Len(Split(text)) |-> Trim(Split(text)[i])], NonEmpty)

startsWith(text, c) == Len(text) > 0 /\ text[1] = c

\* cli.ts:1492-1509 and 2179-2196: the list an option denotes, from a file,
\* from a JSON array or from comma-separated values.
ParseListOption(v, notArrayInFile, notArray) ==
    IF startsWith(v.text, "@")
    THEN IF ~v.parsed.ok THEN Throws(v.parsed.err)
         ELSE IF v.parsed.value.kind # "array" THEN Throws(notArrayInFile)
         ELSE Returns(v.parsed.value.items)
    ELSE IF startsWith(Trim(v.text), "[")
    THEN IF ~v.parsed.ok THEN Throws(v.parsed.err)
         ELSE IF v.parsed.value.kind # "array" THEN Throws(notArray)
         ELSE Returns(v.parsed.value.items)
    ELSE Returns(CommaSeparated(v.text))

\* A list option is given and not the empty string.
Given(o) == o # None /\ o[1].text # <<>>

\* cli.ts:1519-1530: the contract address when not yet set, and the nonce,
\* which needs a contract address or a siloed hash.
WithContractAndNonce(o, params) ==
    LET p1 == IF Truthy(o.contract) /\ ~Truthy(params.contractAddress)
              THEN [params EXCEPT !.contractAddress = o.contract] ELSE params
    IN  IF ~Truthy(o.noteNonce) THEN Returns(p1)
        ELSE IF ~Truthy(p1.contractAddress) /\ ~Truthy(p1.siloedNoteHash)
        THEN Throws("--contract is required when using --note-nonce")
        ELSE Returns([p1 EXCEPT !.noteNonce = o.noteNonce])

\* cli.ts:1465-1530: the parameters of computeNoteHash from the options, or
\* the error of the option that fails.
NoteHashParams(o) ==
    IF Truthy(o.siloedNoteHash)
    THEN IF ~Truthy(o.contract)
         THEN Throws("--contract is required when using --siloed-note-hash")
         ELSE WithContractAndNonce(o, [NoParams EXCEPT !.siloedNoteHash = o.siloedNoteHash,
                                                       !.contractAddress = o.contract])
    ELSE IF Truthy(o.rawNoteHash)
    THEN WithContractAndNonce(o, [NoParams EXCEPT
             !.rawNoteHash = o.rawNoteHash,
             !.contractAddress = IF Truthy(o.contract) THEN o.contract ELSE None])
    ELSE IF ~Given(o.noteItems) THEN Throws("--note-items is required when not using --raw-note-hash or --siloed-note-hash")
    ELSE IF ~Truthy(o.storageSlot) THEN Throws("--storage-slot is required when computing from note items")
    ELSE LET items == ParseListOption(o.noteItems[1],
                                      "note-items file must contain a JSON array",
                                      "note-items must be a JSON array or comma-separated values")
         IN  IF ~items.ok THEN items
             ELSE WithContractAndNonce(o, [NoParams EXCEPT
                      !.noteItems = [kind |-> "array", items |-> items.value],
                      !.storageSlot = o.storageSlot,
                      !.partial = o.partial])

\* cli.ts:2177-2202: the parameters of decryptRawPrivateLog.
DecryptParams(o) ==
    LET ciphertext == ParseListOption(o.ciphertext[1],
                                      "ciphertext file must contain a JSON array",
                                      "ciphertext must be a JSON array or comma-separated values")
    IN  IF ~ciphertext.ok THEN ciphertext
        ELSE Returns([ciphertext |-> [kind |-> "array", items |-> ciphertext.value],
                      recipientAddress |-> o.recipientAddress,
                      recipientSecretKey |-> o.recipientSecretKey])

\* The static methods the class AztecUtilities has of LogUtils: the one it
\* copies (index.ts: static decryptRawPrivateLog = LogUtils.decryptRawPrivateLog).
FacadeMethods == {"decryptRawPrivateLog"}

\* decryptRawPrivateLog called as a method of `receiver`: log.ts:109 calls
\* this.fieldsToBytes, which only LogUtils has; on another receiver the call
\* throws a TypeError once the parameters are validated and parsed.
decryptRawPrivateLogOn(receiver, p) ==
    LET c == decryptRawPrivateLog(p)
    IN  IF receiver = "LogUtils" \/ "fieldsToBytes" \in FacadeMethods THEN c
        ELSE IF c.pc = "done" /\ c.ciphertextBytes = <<>> THEN c
        ELSE LogThrow([LogIdle EXCEPT !.p = p, !.pc = "start",
                                      !.events = <<"stringToFr">>],
                      "this.fieldsToBytes is not a function")

\* Mutant: the catch block reports on standard output and goes on.
CliCatch_OnStdout(c, prefix, e) ==
    [c EXCEPT !.stdout = Append(@, [form |-> "raw", value |-> e]), !.pc = "returned"]

\* cli.ts:1540-1543 and 2207-2210: console.error and process.exit(1).
CliCatch(c, prefix, e) ==
    [c EXCEPT !.stderr = Append(@, [prefix |-> prefix, message |-> e]),
              !.exit = Some(1), !.pc = "exited"]

\* commander on a missing required option: the error on the error stream
\* and exit status 1, the action not being run.
MissingRequired(o) ==
    IF o.ciphertext = None THEN "--ciphertext"
    ELSE IF o.recipientAddress = None THEN "--recipient-address"
    ELSE IF o.recipientSecretKey = None THEN "--recipient-secret-key"
    ELSE ""

\* outputResult (cli.ts:2036-2043): the value wrapped in an object under
\* --json, raw otherwise.
outputResult(c, value, json) ==
    [c EXCEPT !.stdout = Append(@, IF json THEN [form |-> "json", value |-> [value |-> value]]
                                   ELSE [form |-> "raw", value |-> value])]

\* cli.ts:1463-1532: `notes compute-hash` up to the await of the utility.
NoteHashCommand(o, json) ==
    LET c == [CliIdle EXCEPT !.cmd = "compute-hash", !.options = o, !.json = json]
        params == NoteHashParams(o)
    IN  IF ~params.ok THEN CliCatch(c, "Error computing note hash: ", params.err)
        ELSE [c EXCEPT !.pc = "await_core", !.core = Run(Enter(params.value))]

\* cli.ts:2175-2204: `decrypt-private-log` up to the await of the utility,
\* called as a method of AztecUtilities.
DecryptCommand(o) ==
    LET c == [CliIdle EXCEPT !.cmd = "decrypt-private-log", !.options = o]
        params == DecryptParams(o)
    IN  IF MissingRequired(o) # ""
        THEN CliCatch(c, "error: required option not specified: ", MissingRequired(o))
        ELSE IF ~params.ok THEN CliCatch(c, "Error: ", params.err)
        ELSE [c EXCEPT !.pc = "await_core",
                       !.core = decryptRawPrivateLogOn("AztecUtilities", params.value)]

\* cli.ts:1532-1543 and 2204-2210: the utility settled; its result is
\* printed, or its error caught.
AfterCore(c) ==
    LET o == c.core.outcome
        prefix == IF c.cmd = "compute-hash" THEN "Error computing note hash: " ELSE "Error: "
    IN  IF o.kind = "error" THEN CliCatch(c, prefix, o.error)
        ELSE IF o.kind = "object"
        THEN [c EXCEPT !.stdout = Append(@, [form |-> "json", value |-> o.obj]),
                       !.pc = "returned"]
        ELSE IF o.kind = "array"
        THEN [c EXCEPT !.stdout = Append(@, [form |-> "json", value |-> o.value]),
                       !.pc = "returned"]
        ELSE [outputResult(c, o.value[1], c.json) EXCEPT !.pc = "returned"]

\* The option texts drawn: "0x01,4", "0x1", " 0x01 ,,4 ", a JSON array of
\* the same items, JSON that does not parse, and a file holding an object.
ListOption(text, parsed) == [text |-> text, parsed |-> parsed]

NotRead == Throws("not read")

NoteItemsOptions ==
    {None,
     Some(ListOption(<<"0", "x", "0", "1", ",", "4">>, NotRead)),
     Some(ListOption(<<"0", "x", "1">>, NotRead)),
     Some(ListOption(<<" ", "0", "x", "0", "1", " ", ",", ",", "4", " ">>, NotRead)),
     Some(ListOption(<<"[", "]">>,
                     Returns([kind |-> "array",
                              items |-> <<<<"0", "x", "0", "1">>, <<"4">>>>]))),
     Some(ListOption(<<"[">>, Throws("Unexpected end of JSON input"))),
     Some(ListOption(<<"@", "f">>, Returns([kind |-> "object", items |-> <<>>])))}

NoteHashOptions ==
    [siloedNoteHash : {None, Some(<<"0", "x", "0", "a">>)},
     rawNoteHash : {None, Some(<<"0", "x", "0", "b">>)},
     noteItems : NoteItemsOptions,
     storageSlot : {None, Some(<<"0", "x", "0", "7">>)},
     partial : BOOLEAN,
     contract : {None, Some(<<"0", "x", "0", "1">>),
                 Some(<<"0", "x", "0", "0", "0", "0", "0", "0", "1">>)},
     noteNonce : {None, Some(<<"0", "x", "0", "5">>)}]

\* The elements joined by commas.
RECURSIVE Join(_)
Join(texts) == IF texts = <<>> THEN <<>>
               ELSE IF Len(texts) = 1 THEN texts[1]
               ELSE texts[1] \o <<",">> \o Join(SubSeq(texts, 2, Len(texts)))

\* The message as sent, comma-separated and as a JSON array; an array one
\* element short; the empty string; JSON that does not parse.
CiphertextOptions ==
    {None,
     Some(ListOption(Join(Sent), NotRead)),
     Some(ListOption(<<"[", "]">>, Returns([kind |-> "array", items |-> Sent]))),
     Some(ListOption(<<"[", "]">>,
                     Returns([kind |-> "array",
                              items |-> SubSeq(Sent, 1, PRIVATE_LOG_CIPHERTEXT_LEN - 1)]))),
     Some(ListOption(<<"[", "]">>, Returns([kind |-> "array", items |-> OddElement]))),
     Some(ListOption(<<>>, NotRead)),
     Some(ListOption(<<"[">>, Throws("Unexpected end of JSON input")))}

DecryptOptions ==
    [ciphertext : CiphertextOptions,
     recipientAddress : {None, Some(RecipientAddress), Some(<<>>)},
     recipientSecretKey : {None, Some(RecipientSecretKey), Some(<<>>)}]

CliNoteHash == /\ cli.pc = "idle"
               /\ \E o \in NoteHashOptions : \E json \in BOOLEAN :
                     cli' = NoteHashCommand(o, json)
               /\ UNCHANGED otherThanCli

CliDecrypt == /\ cli.pc = "idle"
              /\ \E o \in DecryptOptions : cli' = DecryptCommand(o)
              /\ UNCHANGED otherThanCli

\* An await of the utility resolved.
CliResumeCore ==
    /\ cli.pc = "await_core"
    /\ cli.cmd = "compute-hash"
    /\ cli.core.pc \in {"await_commitment", "await_raw", "await_siloed", "await_unique"}
    /\ cli' = [cli EXCEPT !.core = Resume(cli.core)]
    /\ UNCHANGED otherThanCli

\* The promise of the utility settled and the action resumes.
CliAfterCore == /\ cli.pc = "await_core"
                /\ cli.core.pc = "done"
                /\ cli' = AfterCore(cli)
                /\ UNCHANGED otherThanCli

\* The process ends.
CliEnd == /\ cli.pc \in {"returned", "exited"}
          /\ cli' = CliIdle
          /\ UNCHANGED otherThanCli

NextCli == \/ CliNoteHash
           \/ CliDecrypt
           \/ CliResumeCore
           \/ CliAfterCore
           \/ CliEnd

SpecCli == Init /\ [][NextCli]_vars

\* The options of the command running do not pass its validation.
OptionsRejected ==
    \/ cli.cmd = "compute-hash" /\ ~NoteHashParams(cli.options).ok
    \/ /\ cli.cmd = "decrypt-private-log"
       /\ (MissingRequired(cli.options) # "" \/ ~DecryptParams(cli.options).ok)

\* The utility settled with an error, or with a result.
CoreFailed == cli.core.pc = "done" /\ cli.core.outcome.kind = "error"

CoreSucceeded == cli.core.pc = "done" /\ cli.core.outcome.kind # "error"

\* C22: a command that has ended either failed, and then wrote a message to
\* the error stream, set exit status 1 and wrote nothing to standard
\* output, or wrote its one result to standard output after the utility had
\* succeeded; rejected options and a failed utility always end the command
\* in the first way, and nothing is on standard output while the utility is
\* being awaited.
C22_FailClosed ==
    /\ cli.pc = "exited"
           => cli.exit = Some(1) /\ Len(cli.stderr) = 1 /\ cli.stdout = <<>>
    /\ cli.pc = "returned"
           => CoreSucceeded /\ cli.exit = None /\ cli.stderr = <<>> /\ Len(cli.stdout) = 1
    /\ cli.pc = "await_core" => cli.stdout = <<>> /\ cli.stderr = <<>>
    /\ cli.pc \in {"returned", "exited"} /\ CoreFailed
           => /\ cli.pc = "exited"
              /\ cli.stderr[1].message = cli.core.outcome.error
    /\ cli.stdout # <<>> => CoreSucceeded
    /\ OptionsRejected => cli.pc = "exited" /\ cli.core.pc = "idle"
    /\ cli.pc = "exited" => (OptionsRejected \/ CoreFailed)

\* `notes compute-hash` failed in the utility after a hash had resolved.
C22_Witness == /\ cli.pc = "exited"
               /\ cli.cmd = "compute-hash"
               /\ CoreFailed
               /\ cli.core.hashCalls # <<>>
               /\ cli.exit = Some(1)
               /\ cli.stdout = <<>>

----------------------------------------------------------------------------
(* Claims C23-C26, C28, C30: the wire layout read by decryptRawPrivateLog *)

\* Element i of the ciphertext given, counted from 0, as a field element.
Element(i) == stringToFr(log.p.ciphertext.items[i + 1]).fr

\* The low bytes of an element: all of its big-endian bytes but the first.
LowBytes(f) == ToBytes(FrValue(f) % Pow256(SIZE_IN_BYTES - 1), SIZE_IN_BYTES - 1)

\* Byte k, counted from 0, of the stream the elements 1..N-1 form.
StreamByte(k) ==
    LowBytes(Element(1 + (k \div (SIZE_IN_BYTES - 1))))[(k % (SIZE_IN_BYTES - 1)) + 1]

\* The bytes from..to of the stream, counted from 0.
StreamBytes(from, to) == [j \in 1..(to - from + 1) |-> StreamByte(from + j - 1)]

LastStreamByte == (PRIVATE_LOG_CIPHERTEXT_LEN - 1) * (SIZE_IN_BYTES - 1) - 1

\* The header decrypted from the bytes 1..16 of the stream, under the
\* header's key and iv.
DecryptedHeader ==
    decryptBufferCBC(StreamBytes(1, 16), KeyBytes(log.rands[2]), KeyBytes(log.rands[1]))

\* The length the decrypted header declares.
DeclaredLength == 256 * DecryptedHeader.value[1] + DecryptedHeader.value[2]

\* The first `length` bytes of the body region, all of it when it has fewer.
BodyBytes(length) ==
    IF 17 + length - 1 <= LastStreamByte THEN StreamBytes(17, 17 + length - 1)
    ELSE StreamBytes(17, LastStreamByte)

\* C23: the ciphertext is read by the fixed layout.  The ephemeral public key
\* is asked for with element 0 as its x and byte 0 of the stream as its sign
\* flag, the stream being the low bytes of elements 1..N-1 in order; the
\* header decrypted is bytes 1..16 of the stream; and the body decrypted is
\* the first L bytes of the stream from byte 17 on, L = 256*h0 + h1 read
\* from the decrypted header.
C23_WireLayout ==
    /\ log.pc = "await_point"
           => log.pending = Some(PointFromXAndSign(Element(0), StreamByte(0) # 0))
    /\ log.pc = "await_header" => log.pending = Some(DecryptedHeader)
    /\ log.pc = "await_body" /\ Len(DecryptedHeader.value) >= 2
           => /\ log.ciphertextLength = Some(DeclaredLength)
              /\ log.pending =
                     Some(decryptBufferCBC(BodyBytes(DeclaredLength),
                                           KeyBytes(log.rands[4]), KeyBytes(log.rands[3])))

\* The body of the message as sent is awaited: the header declared one block,
\* less than the body region holds, and that block decrypted.
C23_Witness == /\ log.pc = "await_body"
               /\ log.p.ciphertext.items = Sent
               /\ log.ciphertextLength = Some(AES_BLOCK)
               /\ AES_BLOCK < BodyCapacity
               /\ log.pending[1].ok

\* The separators of the four hash calls as the derivation is specified:
\* (discriminator << 8) + generator index, discriminator 1 for the header
\* and 0 for the body, SYMMETRIC_KEY for the key and SYMMETRIC_KEY_2 for
\* the iv.
StatedSeparators == <<1 * 256 + SYMMETRIC_KEY, 1 * 256 + SYMMETRIC_KEY_2,
                      0 * 256 + SYMMETRIC_KEY, 0 * 256 + SYMMETRIC_KEY_2>>

\* The low half of a hash output's big-endian bytes.
LowHalf(rand) == SubSeq(FrToBuffer(rand), SIZE_IN_BYTES - KEY_SIZE + 1, SIZE_IN_BYTES)

\* The bytes of a key or iv are KEY_SIZE of them, each the byte of the low
\* half standing at the mirrored place.
FromLowHalf(k, rand) ==
    /\ Len(k) = KEY_SIZE
    /\ \A i \in 1..KEY_SIZE : k[i] = LowHalf(rand)[KEY_SIZE + 1 - i]

\* C24: the header and the body are decrypted under their own key and iv.
\* The four hashes of the shared secret are made under the four separators
\* stated, which are pairwise distinct, header key and iv first, and every
\* key and iv handed to the cipher is KEY_SIZE bytes taken from the low
\* half of its hash output and from nowhere else.
C24_KeyDerivation ==
    /\ \A i, j \in 1..4 : i # j => StatedSeparators[i] # StatedSeparators[j]
    /\ \A i \in 1..Len(log.rands) :
          /\ log.rands[i] = poseidon2HashWithSeparator(
                                <<log.sharedSecret[1].x, log.sharedSecret[1].y>>,
                                StatedSeparators[i])
          /\ FromLowHalf(KeyBytes(log.rands[i]), log.rands[i])
          /\ \A j \in 1..Len(log.rands) : i # j => log.rands[i] # log.rands[j]
    /\ log.pc = "await_header"
           => /\ Len(log.rands) = 4
              /\ log.pending = Some(decryptBufferCBC(HeaderCiphertext(log.ciphertextBytes),
                                                     KeyBytes(log.rands[2]),
                                                     KeyBytes(log.rands[1])))
    /\ log.pc = "await_body"
           => /\ Len(log.rands) = 4
              /\ log.pending =
                     Some(decryptBufferCBC(ActualCiphertext(log.ciphertextBytes,
                                                            log.ciphertextLength[1]),
                                           KeyBytes(log.rands[4]), KeyBytes(log.rands[3])))

\* All four hashes are made and the body is being decrypted.
C24_Witness == /\ log.pc = "await_body"
               /\ Len(log.rands) = 4
               /\ log.p.ciphertext.items = Sent
               /\ log.p.recipientSecretKey = Some(RecipientSecretKey)

\* The text of element i (from 0) with byte j of its big-endian bytes set
\* to b.
ElementWith(items, i, j, b) == FieldText([FrToBuffer(stringToFr(items[i + 1]).fr) EXCEPT ![j] = b])

\* The ciphertext with byte k (from 0) of its stream set to b.
WithStreamByte(items, k, b) ==
    [items EXCEPT ![2 + (k \div (SIZE_IN_BYTES - 1))] =
        ElementWith(items, 1 + (k \div (SIZE_IN_BYTES - 1)),
                    2 + (k % (SIZE_IN_BYTES - 1)), b)]

\* The ciphertext with every byte of its stream from byte k on set to b.
RECURSIVE WithStreamTail(_, _, _)
WithStreamTail(items, k, b) ==
    IF k > LastStreamByte THEN items
    ELSE WithStreamTail(WithStreamByte(items, k, b), k + 1, b)

\* The values a changed byte is given.
OtherBytes == {0, 9, 255}

\* The settlement of the invocation at hand on another ciphertext.
OutcomeOn(items) == decryptRawPrivateLogOf([log.p EXCEPT !.ciphertext.items = items])

\* C25: padding is discarded.  Once the header has declared the length L,
\* the settlement of the invocation is that of every ciphertext differing
\* from it only in bytes of the body region at offset L or beyond: one such
\* byte changed, all of them from some offset on, or the last byte of the
\* region given any value.
C25_PaddingDiscarded ==
    LogDone /\ log.ciphertextLength # None =>
        /\ \A k \in (17 + log.ciphertextLength[1])..LastStreamByte : \A b \in OtherBytes :
               /\ OutcomeOn(WithStreamByte(log.p.ciphertext.items, k, b)) = log.outcome
               /\ OutcomeOn(WithStreamTail(log.p.ciphertext.items, k, b)) = log.outcome
        /\ 17 + log.ciphertextLength[1] <= LastStreamByte
               => \A b \in 0..255 :
                     OutcomeOn(WithStreamByte(log.p.ciphertext.items, LastStreamByte, b))
                         = log.outcome

\* The message as sent decrypted, its body ciphertext of one block being
\* followed by padding up to the capacity of the body region.
C25_Witness == /\ LogDone
               /\ log.p.ciphertext.items = Sent
               /\ log.outcome.kind = "array"
               /\ log.ciphertextLength = Some(AES_BLOCK)
               /\ 17 + AES_BLOCK <= LastStreamByte

\* The plaintext the body decrypts to: the cipher's output on the body
\* bytes under the body's key and iv.
PlaintextBytes ==
    decryptBufferCBC(BodyBytes(log.ciphertextLength[1]),
                     KeyBytes(log.rands[4]), KeyBytes(log.rands[3]))

\* The bytes a returned text encodes: its hex digits after 0x.
EncodedBytes(text) == BufferFromHex(slice2(text))

RECURSIVE Concatenated(_)
Concatenated(texts) ==
    IF texts = <<>> THEN <<>>
    ELSE EncodedBytes(texts[1]) \o Concatenated(SubSeq(texts, 2, Len(texts)))

\* C26: a plaintext of k fields' worth of bytes is returned as exactly k
\* fields, field i being the text of the bytes of slice i in big-endian
\* order at full width, so that the encodings of the returned fields,
\* concatenated, are the plaintext bytes.
C26_LosslessRepack ==
    /\ LogDone /\ log.ciphertextLength # None
    /\ PlaintextBytes.ok
    /\ Len(PlaintextBytes.value) % SIZE_IN_BYTES = 0
    => /\ log.outcome.kind = "array"
       /\ Len(log.outcome.value) * SIZE_IN_BYTES = Len(PlaintextBytes.value)
       /\ \A i \in 1..Len(log.outcome.value) :
             /\ startsWith0x(log.outcome.value[i])
             /\ Len(log.outcome.value[i]) = 2 + 2 * SIZE_IN_BYTES
             /\ EncodedBytes(log.outcome.value[i])
                    = SubSeq(PlaintextBytes.value, (i - 1) * SIZE_IN_BYTES + 1,
                             i * SIZE_IN_BYTES)
       /\ Concatenated(log.outcome.value) = PlaintextBytes.value

\* A plaintext of several fields' worth of bytes was returned.
C26_Witness ==
    /\ LogDone /\ log.outcome.kind = "array"
    /\ Len(log.outcome.value) > 1
    /\ Len(PlaintextBytes.value) = SIZE_IN_BYTES * Len(log.outcome.value)

\* The calls of the cipher made so far.
CipherCalls == Cardinality({i \in 1..Len(log.events) : log.events[i] = "decryptBufferCBC"})

\* The errors the cipher and the repacking throw.
CipherErrors == {"WrongBlockLength", "BadPadding", "BufferTooShort"}

\* C28: a declared length beyond the capacity of the body region,
\* (N - 1) * (SIZE_IN_BYTES - 1) - 17 bytes, is no error of its own: the
\* cipher is called a second time, on the whole body region, and the
\* invocation settles with what the cipher and the repacking make of it.
C28_OverlongClamped ==
    log.ciphertextLength # None /\ log.ciphertextLength[1] > LastStreamByte - 16 =>
        /\ log.pc \in {"await_body", "done"}
        /\ CipherCalls = 2
        /\ log.pc = "await_body"
               => log.pending = Some(decryptBufferCBC(StreamBytes(17, LastStreamByte),
                                                      KeyBytes(log.rands[4]),
                                                      KeyBytes(log.rands[3])))
        /\ LogDone /\ log.outcome.kind = "error" => log.outcome.error \in CipherErrors
        /\ LogDone => log.outcome = AfterBody(
                          [log EXCEPT !.pc = "await_body",
                                      !.pending = Some(decryptBufferCBC(
                                                           StreamBytes(17, LastStreamByte),
                                                           KeyBytes(log.rands[4]),
                                                           KeyBytes(log.rands[3])))]).outcome

\* The header declared more than the body region holds, and the whole region
\* decrypted.
C28_Witness == /\ LogDone
               /\ log.ciphertextLength # None
               /\ log.ciphertextLength[1] > BodyCapacity
               /\ BodyCapacity = LastStreamByte - 16
               /\ log.outcome.kind = "array"
               /\ Len(log.outcome.value) * SIZE_IN_BYTES > AES_BLOCK

\* The values given to the most significant byte of an element; a text is
\* an element when stringToFr reads it as a field element.
TopBytes == {0, 1, 47, 48, 255}

IsElement(text) == stringToFr(text).ok

AllElements(items) == \A i \in 1..Len(items) : IsElement(items[i])

\* The ciphertext with the first byte of element i (from 0) set to b, and
\* with the first byte of every element after element 0 set to b.
WithTopByte(items, i, b) == [items EXCEPT ![i + 1] = ElementWith(items, i, 1, b)]

WithTopBytes(items, b) ==
    [i \in 1..Len(items) |-> IF i = 1 THEN items[1] ELSE ElementWith(items, i - 1, 1, b)]

\* The bytes fieldsToBytes makes of the elements after element 0.
CiphertextBytesOf(items) == fieldsToBytes(MapStringToFr(SubSeq(items, 2, Len(items))))

\* C30: fieldsToBytes drops the first byte of every element after element 0
\* unchecked.  A ciphertext of field elements and any ciphertext of field
\* elements differing from it only in the first byte of one element after
\* element 0, or of all of them, give the same bytes and the invocation
\* settles the same way on both.
C30_TopByteDropped ==
    LogDone /\ IsArray /\ AllElements(log.p.ciphertext.items) =>
        /\ \A i \in 1..(Len(log.p.ciphertext.items) - 1) : \A b \in TopBytes :
               IsElement(ElementWith(log.p.ciphertext.items, i, 1, b))
                   => /\ CiphertextBytesOf(WithTopByte(log.p.ciphertext.items, i, b))
                             = CiphertextBytesOf(log.p.ciphertext.items)
                      /\ OutcomeOn(WithTopByte(log.p.ciphertext.items, i, b)) = log.outcome
        /\ \A b \in TopBytes :
               AllElements(WithTopBytes(log.p.ciphertext.items, b))
                   => /\ CiphertextBytesOf(WithTopBytes(log.p.ciphertext.items, b))
                             = CiphertextBytesOf(log.p.ciphertext.items)
                      /\ OutcomeOn(WithTopBytes(log.p.ciphertext.items, b)) = log.outcome

\* The message with a nonzero first byte in one element decrypted to what
\* the message as sent decrypts to, and so does the message with the first
\* byte of every element after element 0 set to 47.
C30_Witness == /\ LogDone
               /\ log.p.ciphertext.items = OtherTop
               /\ log.outcome.kind = "array"
               /\ OtherTop # Sent
               /\ OutcomeOn(Sent) = log.outcome
               /\ AllElements(WithTopBytes(OtherTop, 47))
               /\ WithTopBytes(OtherTop, 47) # OtherTop
               /\ OutcomeOn(WithTopBytes(OtherTop, 47)) = log.outcome

----------------------------------------------------------------------------
(* Claims C27, C29: computeNoteHash, partial mode and given hashes *)

\* The commitment of partial mode over the call's items and slot, and the
\* standard-mode call over that commitment as the single item with the
\* call's last item as the storage slot.
PartialCommitment == H_NOTE(Append(MapStringToFr(privateItemsOf(Items)), SlotFr))

StandardOverCommitment ==
    [NoParams EXCEPT !.noteItems = [kind |-> "array",
                                    items |-> <<FrToString(PartialCommitment)>>],
                     !.storageSlot = Some(valueOf(Items))]

\* C27: both hash calls of partial mode are made under the NOTE_HASH
\* separator, and the raw hash partial mode returns over items a1..a(n-1), v
\* and slot s is the raw hash standard mode returns over the single item
\* H_NOTE(a1..a(n-1), s) and slot v.
C27_PartialIsNested ==
    /\ StartsFromItems /\ call.p.partial
           => \A i \in 1..Len(call.hashCalls) :
                 call.hashCalls[i].stage \in {"await_commitment", "await_raw"}
                     => call.hashCalls[i].separator = NOTE_HASH
    /\ Succeeded /\ StartsFromItems /\ call.p.partial
           => /\ Returned(computeNoteHashOf(StandardOverCommitment))
              /\ RawOf(computeNoteHashOf(StandardOverCommitment)) = ReportedRaw

\* A partial-mode call over three items returned.
C27_Witness == /\ Succeeded
               /\ StartsFromItems
               /\ call.p.partial
               /\ Len(Items) = 3
               /\ HasCall("await_commitment")

\* The hash call made at a stage, and the string of its result.
CallAt(stage) ==
    call.hashCalls[CHOOSE i \in 1..Len(call.hashCalls) : call.hashCalls[i].stage = stage]

ComputedAt(stage) ==
    Some(FrToString(poseidon2HashWithSeparator(CallAt(stage).input,
                                               CallAt(stage).separator)))

\* The field elements the supplied raw and siloed hashes parse to.
GivenRawFr == stringToFr(call.p.rawNoteHash[1]).fr

GivenSiloedFr == stringToFr(call.p.siloedNoteHash[1]).fr

\* C29: a call that starts from a supplied raw or siloed hash reports that
\* stage as the supplied text itself, bare or under its key, while every
\* stage it computes is reported as the canonical string of the hash output;
\* the hash stage that follows a supplied hash takes the parsed field
\* element as its input.
C29_GivenHashVerbatim ==
    /\ Succeeded /\ FromRaw => ReportedRaw = call.p.rawNoteHash
    /\ Succeeded /\ FromSiloed
           => /\ call.outcome.kind = "object"
              /\ call.outcome.obj.siloedNoteHash = call.p.siloedNoteHash
    /\ Succeeded /\ HasCall("await_raw") => ReportedRaw = ComputedAt("await_raw")
    /\ Succeeded /\ HasCall("await_siloed")
           => call.outcome.obj.siloedNoteHash = ComputedAt("await_siloed")
    /\ Succeeded /\ HasCall("await_unique")
           => call.outcome.obj.uniqueNoteHash = ComputedAt("await_unique")
    /\ FromRaw /\ HasCall("await_siloed")
           => CallAt("await_siloed").input = siloedInputs(ContractFr, GivenRawFr)
    /\ FromSiloed /\ HasCall("await_unique")
           => CallAt("await_unique").input = uniqueInputs(NonceFr, GivenSiloedFr)

\* A call from a raw hash given in short form with a contract and a nonce returned: the
\* raw hash is reported as given, which is not the string of the element it
\* parses to, and the two stages after it are computed.
C29_Witness == /\ Succeeded
               /\ FromRaw
               /\ ReportedRaw = call.p.rawNoteHash
               /\ ReportedRaw # Some(FrToString(GivenRawFr))
               /\ HasCall("await_siloed")
               /\ HasCall("await_unique")
               /\ call.outcome.obj.siloedNoteHash = ComputedAt("await_siloed")

====
